---- MODULE Spec2Model ----
(***************************************************************************)
(* A model of goStaticEnv's environment-substituting file server:          *)
(*   - replaceEnvVars      (envfs.go) the placeholder engine               *)
(*   - EnvFileSystem/EnvFile (envfs.go) the rewriting file system wrapper  *)
(*   - matchPattern/shouldInclude (envfs.go) the include/exclude matcher   *)
(*   - checkEnvVarsInFiles (envfs.go) the startup scan                     *)
(*   - main                (main program) the startup ordering             *)
(* Strings are sequences of bytes; a byte is written as a one-character    *)
(* string, a byte outside ASCII as "xHH".                                  *)
(***************************************************************************)
EXTENDS Integers, Sequences, FiniteSets, TLC

VARIABLES
    pc,        \* position of the operation under way
    env,       \* the process environment: a function from names to values
    content,   \* replaceEnvVars: the argument
    output,    \* replaceEnvVars: the returned string
    lookups,   \* replaceEnvVars: the names handed to os.LookupEnv
    disk,      \* the served tree: a function from names to [isDir, data]
    handles,   \* the handles the underlying file system has handed out
    efiles,    \* the files EnvFileSystem.Open has returned
    ret,       \* what the last file operation returned
    incPats,  \* the parsed include patterns
    excPats,  \* the parsed exclude patterns
    qPath,      \* shouldInclude: the path asked about
    qIsFile,    \* shouldInclude: whether the path is a regular file
    selected,  \* shouldInclude: the answer
    qPattern,  \* matchPattern: the pattern
    qIsInclude, \* matchPattern: include query or exclude query
    matched,   \* matchPattern: the answer
    root,             \* checkEnvVarsInFiles: the root argument (*basePath)
    includeDirs,      \* checkEnvVarsInFiles: the include argument (*envInclude)
    excludeDirs,      \* checkEnvVarsInFiles: the exclude argument (*envExclude)
    todo,             \* filepath.Walk: the paths still to visit, next first
    walkErr,          \* filepath.Walk: the error the walk stops with
    missing,          \* checkEnvVarsInFiles: the names collected so far
    readFiles,        \* the files os.ReadFile has been called on
    visited,          \* the entries filepath.Walk has looked at
    scanResult,       \* checkEnvVarsInFiles: the error returned
    checkCalls,       \* main: the calls of checkEnvVarsInFiles
    allowMissingEnv,  \* main: the allow-missing-env flag
    warned,           \* main: the warning has been logged
    exitCode,         \* main: the status the process exited with
    listened          \* main: the server has started listening

vars == <<pc, env, content, output, lookups, disk, handles, efiles, ret,
          incPats, excPats, qPath, qIsFile, selected, qPattern, qIsInclude, matched,
          root, includeDirs, excludeDirs, todo, walkErr, missing, readFiles, visited,
          scanResult, checkCalls, allowMissingEnv, warned, exitCode, listened>>

scanVars == <<root, includeDirs, excludeDirs, todo, walkErr, missing, readFiles, visited,
              scanResult>>

mainVars == <<checkCalls, allowMissingEnv, warned, exitCode, listened>>

patVars == <<incPats, excPats>>

matchVars == <<qPath, qIsFile, selected, qPattern, qIsInclude, matched>>

replaceVars == <<content, output, lookups>>

fsVars == <<disk, handles, efiles, ret>>

----------------------------------------------------------------------------
(* Bytes and strings *)

Upper == {"A","B","C","D","E","F","G","H","I","J","K","L","M",
          "N","O","P","Q","R","S","T","U","V","W","X","Y","Z"}

Lower == {"a","b","c","d","e","f","g","h","i","j","k","l","m",
          "n","o","p","q","r","s","t","u","v","w","x","y","z"}

Digit == {"0","1","2","3","4","5","6","7","8","9"}

\* [A-Za-z_]
NameStart == Upper \cup Lower \cup {"_"}

\* [A-Za-z0-9_]
NameChar == NameStart \cup Digit

RECURSIVE Concat(_)
Concat(ss) == IF ss = <<>> THEN <<>> ELSE Head(ss) \o Concat(Tail(ss))

\* strings.HasPrefix
HasPrefix(s, p) == Len(p) <= Len(s) /\ SubSeq(s, 1, Len(p)) = p

----------------------------------------------------------------------------
(* envVarPattern: dollar, open brace, a name (a letter or underscore, then  *)
(* letters, digits and underscores), optionally ":=" with a default text of *)
(* any bytes but the closing brace, and a closing brace.                    *)

\* The last index of the greedy run [A-Za-z0-9_]* that starts at j (j-1 when empty).
RECURSIVE NameEnd(_, _)
NameEnd(s, j) ==
    IF j <= Len(s) /\ s[j] \in NameChar THEN NameEnd(s, j + 1) ELSE j - 1

\* FirstClose for a default text that may hold "}": the last "}" of s.
RECURSIVE FirstClose_Last(_, _)
FirstClose_Last(s, j) ==
    IF j > Len(s) THEN 0
    ELSE IF FirstClose_Last(s, j + 1) # 0 THEN FirstClose_Last(s, j + 1)
    ELSE IF s[j] = "}" THEN j
    ELSE 0

\* The index of the first "}" at or after j, 0 when there is none: where the
\* greedy [^}]* has to stop for the closing brace to match.
RECURSIVE FirstClose(_, _)
FirstClose(s, j) ==
    IF j > Len(s) THEN 0
    ELSE IF s[j] = "}" THEN j
    ELSE FirstClose(s, j + 1)

NoMatch == [ok |-> FALSE, start |-> 0, end |-> 0, groups |-> <<>>]

\* MatchAt with the separator ":" in place of ":=".
MatchAt_ColonOnly(s, i) ==
    IF i + 2 > Len(s) \/ s[i] # "$" \/ s[i + 1] # "{" \/ s[i + 2] \notin NameStart
    THEN NoMatch
    ELSE LET e == NameEnd(s, i + 3)
             hasSep == e + 1 <= Len(s) /\ s[e + 1] = ":"
             c == IF hasSep THEN FirstClose(s, e + 2) ELSE 0
         IN  IF hasSep /\ c # 0
             THEN [ok |-> TRUE, start |-> i, end |-> c,
                   groups |-> <<SubSeq(s, i, c), SubSeq(s, i + 2, e),
                                SubSeq(s, e + 1, c - 1), SubSeq(s, e + 2, c - 1)>>]
             ELSE IF e + 1 <= Len(s) /\ s[e + 1] = "}"
             THEN [ok |-> TRUE, start |-> i, end |-> e + 1,
                   groups |-> <<SubSeq(s, i, e + 1), SubSeq(s, i + 2, e), <<>>, <<>>>>]
             ELSE NoMatch

\* The match of envVarPattern that starts exactly at index i, with its
\* submatches as Go reports them: groups[1] the whole match, groups[2] the
\* name, groups[3] the optional (:=default), groups[4] the default text; a
\* group that took no part is the empty string.
MatchAt(s, i) ==
    IF i + 2 > Len(s) \/ s[i] # "$" \/ s[i + 1] # "{" \/ s[i + 2] \notin NameStart
    THEN NoMatch
    ELSE LET e == NameEnd(s, i + 3)
             hasSep == e + 2 <= Len(s) /\ s[e + 1] = ":" /\ s[e + 2] = "="
             c == IF hasSep THEN FirstClose(s, e + 3) ELSE 0
         IN  IF hasSep /\ c # 0
             THEN [ok |-> TRUE, start |-> i, end |-> c,
                   groups |-> <<SubSeq(s, i, c), SubSeq(s, i + 2, e),
                                SubSeq(s, e + 1, c - 1), SubSeq(s, e + 3, c - 1)>>]
             ELSE IF e + 1 <= Len(s) /\ s[e + 1] = "}"
             THEN [ok |-> TRUE, start |-> i, end |-> e + 1,
                   groups |-> <<SubSeq(s, i, e + 1), SubSeq(s, i + 2, e), <<>>, <<>>>>]
             ELSE NoMatch

\* The leftmost match at or after index i.
RECURSIVE FindFrom(_, _)
FindFrom(s, i) ==
    IF i > Len(s) THEN NoMatch
    ELSE IF MatchAt(s, i).ok THEN MatchAt(s, i)
    ELSE FindFrom(s, i + 1)

\* envVarPattern.FindStringSubmatch(s): the submatches of the leftmost match,
\* the empty sequence (nil) when there is none.
FindStringSubmatch(s) == FindFrom(s, 1).groups

\* envVarPattern.FindAllStringSubmatch(s, -1): the successive non-overlapping
\* matches, scanning from index i.
RECURSIVE FindAllFrom(_, _)
FindAllFrom(s, i) ==
    LET m == FindFrom(s, i)
    IN  IF m.ok THEN <<m>> \o FindAllFrom(s, m.end + 1) ELSE <<>>

FindAllStringSubmatch(s) == FindAllFrom(s, 1)

----------------------------------------------------------------------------
(* The environment *)

\* os.LookupEnv
LookupEnv(e, name) ==
    IF name \in DOMAIN e THEN [value |-> e[name], exists |-> TRUE]
    ELSE [value |-> <<>>, exists |-> FALSE]

----------------------------------------------------------------------------
(* Strings and paths: the library functions the matcher uses (Unix) *)

\* The printable ASCII bytes in order, from the blank (32) to the tilde (126);
\* the grave accent (96) is written "x60".
Ascii ==
    << " ", "!", "\"", "#", "$", "%", "&", "'", "(", ")", "*", "+", ",", "-", ".", "/",
       "0", "1", "2", "3", "4", "5", "6", "7", "8", "9", ":", ";", "<", "=", ">", "?",
       "@", "A", "B", "C", "D", "E", "F", "G", "H", "I", "J", "K", "L", "M", "N", "O",
       "P", "Q", "R", "S", "T", "U", "V", "W", "X", "Y", "Z", "[", "\\", "]", "^", "_",
       "x60", "a", "b", "c", "d", "e", "f", "g", "h", "i", "j", "k", "l", "m", "n", "o",
       "p", "q", "r", "s", "t", "u", "v", "w", "x", "y", "z", "{", "|", "}", "~" >>

\* A byte's value: control bytes below the blank, the bytes written "xHH" above.
Ord(c) ==
    IF c \in {"\t", "\n", "\r", "\f"} THEN 10
    ELSE IF \E i \in 1..Len(Ascii) : Ascii[i] = c
    THEN 31 + (CHOOSE i \in 1..Len(Ascii) : Ascii[i] = c)
    ELSE 128

\* The element of a one-element set. An intermediate result is named by
\* binding it over the set that holds it alone: x \in {e}.
The(set) == CHOOSE x \in set : TRUE

\* s[k:]
Drop(s, k) == SubSeq(s, k + 1, Len(s))

\* strings.Contains(s, sub) for a one-byte sub
ContainsByte(s, c) == \E i \in 1..Len(s) : s[i] = c

\* strings.ContainsAny
ContainsAny(s, cs) == \E i \in 1..Len(s) : s[i] \in cs

WhiteSpace == {" ", "\t", "\n", "\r", "\f"}

\* strings.TrimSpace
RECURSIVE TrimLeft(_)
TrimLeft(s) == IF s # <<>> /\ Head(s) \in WhiteSpace THEN TrimLeft(Tail(s)) ELSE s

RECURSIVE TrimRight(_)
TrimRight(s) ==
    IF s # <<>> /\ s[Len(s)] \in WhiteSpace THEN TrimRight(SubSeq(s, 1, Len(s) - 1)) ELSE s

TrimSpace(s) == TrimRight(TrimLeft(s))

\* strings.Split(s, sep) for a one-byte sep: never empty, Split("") is <<"">>.
RECURSIVE SplitFrom(_, _, _)
SplitFrom(s, sep, cur) ==
    IF s = <<>> THEN <<cur>>
    ELSE IF Head(s) = sep THEN <<cur>> \o SplitFrom(Tail(s), sep, <<>>)
    ELSE SplitFrom(Tail(s), sep, Append(cur, Head(s)))

Split(s, sep) == SplitFrom(s, sep, <<>>)

\* strings.Join(parts, "/")
RECURSIVE JoinSlash(_)
JoinSlash(parts) ==
    IF parts = <<>> THEN <<>>
    ELSE IF Len(parts) = 1 THEN parts[1]
    ELSE parts[1] \o <<"/">> \o JoinSlash(Tail(parts))

\* filepath.ToSlash: the separator is "/" already.
ToSlash(s) == s

\* filepath.Clean's pass over the components: "" and "." are dropped, ".."
\* removes the component before it, or stays when there is none to remove in
\* a path that is not rooted.
RECURSIVE CleanParts(_, _, _)
CleanParts(parts, rooted, acc) ==
    IF parts = <<>> THEN acc
    ELSE LET p == Head(parts)
         IN  IF p = <<>> \/ p = <<".">> THEN CleanParts(Tail(parts), rooted, acc)
             ELSE IF p = <<".", ".">>
             THEN IF acc # <<>> /\ acc[Len(acc)] # <<".", ".">>
                  THEN CleanParts(Tail(parts), rooted, SubSeq(acc, 1, Len(acc) - 1))
                  ELSE IF rooted THEN CleanParts(Tail(parts), rooted, acc)
                  ELSE CleanParts(Tail(parts), rooted, Append(acc, p))
             ELSE CleanParts(Tail(parts), rooted, Append(acc, p))

\* filepath.Clean
Clean(path) ==
    IF path = <<>> THEN <<".">>
    ELSE LET rooted == path[1] = "/"
             kept == {CleanParts(parts, rooted, <<>>) : parts \in {Split(path, "/")}}
         IN  The({IF rooted THEN <<"/">> \o body
                  ELSE IF body = <<>> THEN <<".">>
                  ELSE body : body \in {JoinSlash(parts) : parts \in kept}})

\* The index of the last "/" of s, 0 when there is none.
RECURSIVE LastSlash(_)
LastSlash(s) ==
    IF s = <<>> THEN 0
    ELSE IF s[Len(s)] = "/" THEN Len(s)
    ELSE LastSlash(SubSeq(s, 1, Len(s) - 1))

\* filepath.Dir
Dir(path) == The({Clean(dir) : dir \in {SubSeq(path, 1, LastSlash(path))}})

RECURSIVE StripTrailingSlashes(_)
StripTrailingSlashes(s) ==
    IF s # <<>> /\ s[Len(s)] = "/" THEN StripTrailingSlashes(SubSeq(s, 1, Len(s) - 1))
    ELSE s

\* filepath.Base
Base(path) ==
    IF path = <<>> THEN <<".">>
    ELSE The({IF p = <<>> THEN <<"/">> ELSE Drop(p, LastSlash(p)) :
                  p \in {StripTrailingSlashes(path)}})

----------------------------------------------------------------------------
(* filepath.Match (Unix): shell patterns with *, ?, [classes] and \ escapes. *)
(* A result is [matched, err]; the callers drop err.                        *)

RECURSIVE DropStars(_)
DropStars(p) == IF p # <<>> /\ Head(p) = "*" THEN DropStars(Tail(p)) ELSE p

\* scanChunk's scan: the number of bytes of p before the first "*" outside a
\* class, from offset i on.
RECURSIVE ScanEnd(_, _, _)
ScanEnd(p, i, inrange) ==
    IF i >= Len(p) THEN i
    ELSE LET c == p[i + 1]
         IN  IF c = "\\" THEN ScanEnd(p, (IF i + 1 < Len(p) THEN i + 1 ELSE i) + 1, inrange)
             ELSE IF c = "[" THEN ScanEnd(p, i + 1, TRUE)
             ELSE IF c = "]" THEN ScanEnd(p, i + 1, FALSE)
             ELSE IF c = "*" /\ ~inrange THEN i
             ELSE ScanEnd(p, i + 1, inrange)

scanChunk(pattern) ==
    LET p == DropStars(pattern)
        i == ScanEnd(p, 0, FALSE)
    IN  [star |-> pattern # <<>> /\ pattern[1] = "*",
         chunk |-> SubSeq(p, 1, i),
         rest |-> Drop(p, i)]

\* getEsc: one byte of a class, after an optional "\".
getEsc(chunk) ==
    IF chunk = <<>> \/ chunk[1] = "-" \/ chunk[1] = "]"
    THEN [r |-> "", nchunk |-> <<>>, err |-> TRUE]
    ELSE LET c == IF chunk[1] = "\\" THEN Tail(chunk) ELSE chunk
         IN  IF c = <<>> THEN [r |-> "", nchunk |-> <<>>, err |-> TRUE]
             ELSE [r |-> c[1], nchunk |-> Tail(c), err |-> Tail(c) = <<>>]

\* matchChunk's loop over the ranges of a class, after "[" and "^"; r is the
\* byte to match, "" when the match has failed already.
RECURSIVE ParseRanges(_, _, _, _)
ParseRanges(chunk, r, match, nrange) ==
    IF chunk # <<>> /\ chunk[1] = "]" /\ nrange > 0
    THEN [err |-> FALSE, match |-> match, chunk |-> Tail(chunk)]
    ELSE LET lo == getEsc(chunk)
         IN  IF lo.err THEN [err |-> TRUE, match |-> FALSE, chunk |-> <<>>]
             ELSE LET ranged == lo.nchunk[1] = "-"
                      hi == IF ranged THEN getEsc(Tail(lo.nchunk)) ELSE lo
                  IN  IF hi.err THEN [err |-> TRUE, match |-> FALSE, chunk |-> <<>>]
                      ELSE The({ParseRanges(c, b, m, n) :
                                    c \in {hi.nchunk}, b \in {r},
                                    m \in {match \/ (r # "" /\ Ord(lo.r) <= Ord(r)
                                                           /\ Ord(r) <= Ord(hi.r))},
                                    n \in {nrange + 1}})

ChunkFail == [rest |-> <<>>, ok |-> FALSE, err |-> FALSE]

ChunkBad == [rest |-> <<>>, ok |-> FALSE, err |-> TRUE]

\* matchChunk: chunk holds no "*" outside a class; it must match a prefix of s.
RECURSIVE matchChunkFrom(_, _, _)
matchChunkFrom(chunk, s, wasFailed) ==
    IF chunk = <<>>
    THEN IF wasFailed THEN ChunkFail ELSE [rest |-> s, ok |-> TRUE, err |-> FALSE]
    ELSE LET failed == wasFailed \/ s = <<>>
             s1 == IF failed THEN s ELSE Tail(s)
         IN  IF chunk[1] = "["
             THEN LET r == IF failed THEN "" ELSE s[1]
                      negated == Len(chunk) > 1 /\ chunk[2] = "^"
                      body == IF negated THEN Drop(chunk, 2) ELSE Tail(chunk)
                  IN  The({IF cls.err THEN ChunkBad
                           ELSE The({matchChunkFrom(c, t, f) :
                                        c \in {cls.chunk}, t \in {s1},
                                        f \in {failed \/ cls.match = negated}}) :
                           cls \in {ParseRanges(body, r, FALSE, 0)}})
             ELSE IF chunk[1] = "?"
             THEN The({matchChunkFrom(c, t, f) :
                          c \in {Tail(chunk)}, t \in {s1}, f \in {failed \/ s[1] = "/"}})
             ELSE LET lit == IF chunk[1] = "\\" THEN Tail(chunk) ELSE chunk
                  IN  IF lit = <<>> THEN ChunkBad
                      ELSE The({matchChunkFrom(c, t, f) :
                                   c \in {Tail(lit)}, t \in {s1},
                                   f \in {failed \/ lit[1] # s[1]}})

matchChunk(chunk, s) == The({matchChunkFrom(c, t, FALSE) : c \in {chunk}, t \in {s}})

RECURSIVE MatchLoop(_, _)
RECURSIVE MatchStar(_, _, _, _)

\* Match's search, after a "*", for the first place skipping i+1 bytes of
\* name where chunk matches; a "*" does not cross "/".
MatchStar(chunk, rest, name, i) ==
    IF i < Len(name) /\ name[i + 1] # "/"
    THEN \E m \in {matchChunk(chunk, Drop(name, i + 1))}, next \in {i + 1} :
             IF m.ok
             THEN IF rest = <<>> /\ m.rest # <<>>
                  THEN MatchStar(chunk, rest, name, next)
                  ELSE MatchLoop(rest, m.rest)
             ELSE IF m.err THEN FALSE
             ELSE MatchStar(chunk, rest, name, next)
    ELSE FALSE

\* Match's loop over the chunks of the pattern.
MatchLoop(pattern, name) ==
    IF pattern = <<>> THEN name = <<>>
    ELSE \E sc \in {scanChunk(pattern)} :
             IF sc.star /\ sc.chunk = <<>> THEN ~ContainsByte(name, "/")
             ELSE \E m \in {matchChunk(sc.chunk, name)} :
                      IF m.ok /\ (m.rest = <<>> \/ sc.rest # <<>>)
                      THEN MatchLoop(sc.rest, m.rest)
                      ELSE IF m.err THEN FALSE
                      ELSE IF sc.star THEN MatchStar(sc.chunk, sc.rest, name, 0)
                      ELSE FALSE

\* matched, _ := filepath.Match(pattern, name)
Match(pattern, name) == \E p \in {pattern}, n \in {name} : MatchLoop(p, n)

----------------------------------------------------------------------------
(* The include/exclude matcher *)

fileExtensions ==
    { <<"h", "t", "m", "l">>, <<"j", "s">>, <<"c", "s", "s">>, <<"j", "s", "o", "n">>, <<"t", "x", "t">>, <<"m", "d">>, <<"x", "m", "l">>, <<"y", "m", "l">>,
      <<"y", "a", "m", "l">>, <<"l", "o", "g">>, <<"b", "a", "k">> }

\* parsePatterns' loop: the parts, trimmed, without the empty ones.
RECURSIVE TrimmedParts(_)
TrimmedParts(parts) ==
    IF parts = <<>> THEN <<>>
    ELSE LET trimmed == TrimSpace(Head(parts))
         IN  IF trimmed # <<>> THEN <<trimmed>> \o TrimmedParts(Tail(parts))
             ELSE TrimmedParts(Tail(parts))

parsePatterns(patterns) ==
    IF patterns = <<>> THEN <<>>
    ELSE The({TrimmedParts(parts) : parts \in {Split(TrimSpace(patterns), ",")}})

\* matchPattern whose literal prefix test leaves out the "/".
matchPattern_NoSeparator(path, rawPattern, isInclude) ==
    \E pattern \in {ToSlash(TrimSpace(rawPattern))}, pathParts \in {Split(path, "/")} :
        IF path = pattern THEN TRUE
        ELSE IF ContainsAny(pattern, {"*", "?", "[", "]"})
        THEN IF Match(pattern, path) THEN TRUE
             ELSE IF ContainsByte(pattern, "/")
             THEN IF Match(pattern, Dir(path)) THEN TRUE
                  ELSE IF isInclude
                  THEN \E patternDir \in {Dir(pattern)} :
                           /\ patternDir # <<".">>
                           /\ \/ path = patternDir
                              \/ HasPrefix(path, patternDir \o <<"/">>)
                              \/ HasPrefix(patternDir, path \o <<"/">>)
                  ELSE FALSE
             ELSE \E k \in 1..Len(pathParts) : Match(pattern, pathParts[k])
        ELSE \/ HasPrefix(path, pattern)
             \/ isInclude /\ HasPrefix(pattern, path \o <<"/">>)
             \/ \E k \in 1..Len(pathParts) : pathParts[k] = pattern

\* matchPattern whose glob without "/" is tried on the whole path only.
matchPattern_WholePathOnly(path, rawPattern, isInclude) ==
    \E pattern \in {ToSlash(TrimSpace(rawPattern))}, pathParts \in {Split(path, "/")} :
        IF path = pattern THEN TRUE
        ELSE IF ContainsAny(pattern, {"*", "?", "[", "]"})
        THEN IF Match(pattern, path) THEN TRUE
             ELSE IF ContainsByte(pattern, "/")
             THEN IF Match(pattern, Dir(path)) THEN TRUE
                  ELSE IF isInclude
                  THEN \E patternDir \in {Dir(pattern)} :
                           /\ patternDir # <<".">>
                           /\ \/ path = patternDir
                              \/ HasPrefix(path, patternDir \o <<"/">>)
                              \/ HasPrefix(patternDir, path \o <<"/">>)
                  ELSE FALSE
             ELSE FALSE
        ELSE \/ HasPrefix(path, pattern \o <<"/">>)
             \/ isInclude /\ HasPrefix(pattern, path \o <<"/">>)
             \/ \E k \in 1..Len(pathParts) : pathParts[k] = pattern

\* matchPattern with the allowance for parents of the pattern in exclude
\* queries too.
matchPattern_AlwaysAllow(path, rawPattern, isInclude) ==
    \E pattern \in {ToSlash(TrimSpace(rawPattern))}, pathParts \in {Split(path, "/")} :
        IF path = pattern THEN TRUE
        ELSE IF ContainsAny(pattern, {"*", "?", "[", "]"})
        THEN IF Match(pattern, path) THEN TRUE
             ELSE IF ContainsByte(pattern, "/")
             THEN IF Match(pattern, Dir(path)) THEN TRUE
                  ELSE \E patternDir \in {Dir(pattern)} :
                           /\ patternDir # <<".">>
                           /\ \/ path = patternDir
                              \/ HasPrefix(path, patternDir \o <<"/">>)
                              \/ HasPrefix(patternDir, path \o <<"/">>)
             ELSE \E k \in 1..Len(pathParts) : Match(pattern, pathParts[k])
        ELSE \/ HasPrefix(path, pattern \o <<"/">>)
             \/ HasPrefix(pattern, path \o <<"/">>)
             \/ \E k \in 1..Len(pathParts) : pathParts[k] = pattern

matchPattern(path, rawPattern, isInclude) ==
    \E pattern \in {ToSlash(TrimSpace(rawPattern))}, pathParts \in {Split(path, "/")} :
        IF path = pattern THEN TRUE
        ELSE IF ContainsAny(pattern, {"*", "?", "[", "]"})
        THEN IF Match(pattern, path) THEN TRUE
             ELSE IF ContainsByte(pattern, "/")
             THEN IF Match(pattern, Dir(path)) THEN TRUE
                  ELSE IF isInclude
                  THEN \E patternDir \in {Dir(pattern)} :
                           /\ patternDir # <<".">>
                           /\ \/ path = patternDir
                              \/ HasPrefix(path, patternDir \o <<"/">>)
                              \/ HasPrefix(patternDir, path \o <<"/">>)
                  ELSE FALSE
             ELSE \E k \in 1..Len(pathParts) : Match(pattern, pathParts[k])
        ELSE \/ HasPrefix(path, pattern \o <<"/">>)
             \/ isInclude /\ HasPrefix(pattern, path \o <<"/">>)
             \/ \E k \in 1..Len(pathParts) : pathParts[k] = pattern

isFilePattern(pattern) ==
    IF HasPrefix(pattern, <<"*", ".">>) /\ ~ContainsByte(pattern, "/")
    THEN Drop(pattern, 2) \in fileExtensions
    ELSE ContainsByte(pattern, "/") /\ ContainsByte(pattern, "*") /\ ContainsByte(pattern, ".")

matchesFilePattern(filePath, rawPattern) ==
    \E pattern \in {ToSlash(TrimSpace(rawPattern))} :
        IF /\ HasPrefix(pattern, <<"*", ".">>) /\ ~ContainsByte(pattern, "/")
           /\ Drop(pattern, 2) \in fileExtensions
        THEN Match(pattern, Base(filePath))
        ELSE IF ContainsByte(pattern, "/") /\ ContainsByte(pattern, ".")
        THEN Match(pattern, filePath)
        ELSE \E dir \in {Dir(filePath)} : matchPattern(dir, pattern, TRUE)

hasFilePatterns(patterns) == \E k \in 1..Len(patterns) : isFilePattern(patterns[k])

\* shouldInclude's second loop: whether an include pattern selects the path.
IncludeMatches(path, includePatterns, isFile) ==
    \E k \in 1..Len(includePatterns) :
        IF isFile /\ isFilePattern(includePatterns[k])
        THEN matchesFilePattern(path, includePatterns[k])
        ELSE matchPattern(path, includePatterns[k], TRUE)

\* shouldInclude with the include patterns asked first.
shouldInclude_IncludeFirst(path, includePatterns, excludePatterns, isFile) ==
    IF includePatterns # <<>> /\ IncludeMatches(path, includePatterns, isFile) THEN TRUE
    ELSE IF \E k \in 1..Len(excludePatterns) : matchPattern(path, excludePatterns[k], FALSE)
    THEN FALSE
    ELSE includePatterns = <<>>

\* shouldInclude that asks a pattern which is not a file pattern about the
\* directory of a regular file.
shouldInclude_ByDirectory(path, includePatterns, excludePatterns, isFile) ==
    \E asked \in {IF isFile THEN Dir(path) ELSE path} :
        IF \E k \in 1..Len(excludePatterns) : matchPattern(asked, excludePatterns[k], FALSE)
        THEN FALSE
        ELSE IF Len(includePatterns) = 0 THEN TRUE
        ELSE \E k \in 1..Len(includePatterns) :
                 IF isFile /\ isFilePattern(includePatterns[k])
                 THEN matchesFilePattern(path, includePatterns[k])
                 ELSE matchPattern(asked, includePatterns[k], TRUE)

shouldInclude(path, includePatterns, excludePatterns, isFile) ==
    IF \E k \in 1..Len(excludePatterns) : matchPattern(path, excludePatterns[k], FALSE)
    THEN FALSE
    ELSE IF Len(includePatterns) = 0 THEN TRUE
    ELSE IncludeMatches(path, includePatterns, isFile)

----------------------------------------------------------------------------
(* replaceEnvVars *)

\* replaceMatch with an empty value taken for an unset variable.
replaceMatch_EmptyIsUnset(e, match) ==
    LET groups == FindStringSubmatch(match)
        look == LookupEnv(e, groups[2])
    IN  IF look.exists /\ look.value # <<>> THEN look.value
        ELSE IF groups[3] # <<>> THEN groups[4]
        ELSE match

\* replaceMatch without the test for a bare ":=": an empty default is no default.
replaceMatch_NoEmptyDefault(e, match) ==
    LET groups == FindStringSubmatch(match)
        look == LookupEnv(e, groups[2])
    IN  IF look.exists THEN look.value
        ELSE IF groups[4] # <<>> THEN groups[4]
        ELSE match

\* replaceMatch with an unset variable without default replaced by nothing.
replaceMatch_DropUnset(e, match) ==
    LET groups == FindStringSubmatch(match)
        look == LookupEnv(e, groups[2])
    IN  IF look.exists THEN look.value ELSE groups[4]

\* The function replaceEnvVars hands to ReplaceAllStringFunc: what one match
\* is replaced by. Go's groups[k] is groups[k + 1] here.
replaceMatch(e, match) ==
    LET groups == FindStringSubmatch(match)
    IN  IF Len(groups) < 2 THEN match
        ELSE LET varName == groups[2]
                 hasDefault == Len(groups) > 3 /\ groups[4] # <<>>
                 defaultValue == IF hasDefault THEN groups[4] ELSE <<>>
                 look == LookupEnv(e, varName)
             IN  IF look.exists THEN look.value
                 ELSE IF hasDefault \/ (Len(groups) > 2 /\ groups[3] = <<":", "=">>)
                 THEN defaultValue
                 ELSE match

\* envVarPattern.ReplaceAllStringFunc(s, repl) from index i on: the text
\* between the matches is copied, each match is replaced, and the replacement
\* is not scanned again.
RECURSIVE ReplaceAllFrom(_, _, _)
ReplaceAllFrom(e, s, i) ==
    LET m == FindFrom(s, i)
    IN  IF m.ok
        THEN SubSeq(s, i, m.start - 1) \o replaceMatch(e, m.groups[1])
                 \o ReplaceAllFrom(e, s, m.end + 1)
        ELSE SubSeq(s, i, Len(s))

replaceEnvVars(e, s) == ReplaceAllFrom(e, s, 1)

\* The names replaceEnvVars hands to os.LookupEnv while it rewrites s.
LookedUp(s) ==
    LET ms == FindAllStringSubmatch(s)
    IN  {FindStringSubmatch(ms[k].groups[1])[2] : k \in 1..Len(ms)}

----------------------------------------------------------------------------
(* Inputs *)

MaxFrags == 3

Str_FOO == <<"F", "O", "O">>
Str_BAZ == <<"B", "A", "Z">>

\* The pieces contents are built from: whole tokens, the starts of tokens and
\* the single bytes of the token grammar.
Fragments ==
    { <<"$", "{", "A">>, <<"$", "{", "A", ":", "=">>,
      <<"$", "{", "A", "}">>, <<"$", "{", "B", "}">>,
      <<"$", "{">>, <<"}">>, <<":", "=">>, <<":">>, <<"1">>, <<"-">>,
      <<"$">>, <<"xC3", "xA9">> }

\* The sequences of at most n fragments.
RECURSIVE FragSeqs(_)
FragSeqs(n) ==
    IF n = 0 THEN {<<>>}
    ELSE LET shorter == FragSeqs(n - 1)
         IN  shorter \cup {Append(fs, f) : fs \in shorter, f \in Fragments}

\* ${FOO:=bar}baz}  and  ${FOO:=bar${BAZ}}  (envfs_test.go), a default with
\* blanks, ":" and "=", and two tokens of one name.
Examples ==
    { <<"$", "{", "F", "O", "O", ":", "=", "b", "a", "r", "}", "b", "a", "z", "}">>,
      <<"$", "{", "F", "O", "O", ":", "=", "b", "a", "r", "$", "{", "B", "A", "Z", "}", "}">>,
      <<"$", "{", "A", ":", "=", " ", "a", ":", "=", " ", "xC3", "xA9", "}">>,
      <<"$", "{", "B", ":", "=", "d", "}", " ", "$", "{", "B", "}">> }

ContentSet == {Concat(fs) : fs \in FragSeqs(MaxFrags)} \cup Examples

EnvEmpty == [n \in {} |-> <<>>]

\* The environments: A, B and BAZ set (to the empty string, to a text, to a
\* text that reads as a token) or unset; FOO always unset.
EnvSet ==
    { EnvEmpty,
      [n \in {<<"A">>} |-> <<>>],
      [n \in {<<"A">>} |-> <<"v">>],
      [n \in {<<"B">>} |-> <<"w">>],
      [n \in {<<"A">>, <<"B">>} |-> IF n = <<"A">> THEN <<"$", "{", "B", "}">> ELSE <<>>],
      [n \in {<<"A">>, Str_BAZ} |-> <<"z">>] }

----------------------------------------------------------------------------
(* The placeholder engine on its own: one call of replaceEnvVars *)

\* No file system: the state of the parts that take no part.
IdleFS ==
    /\ disk = <<>>
    /\ handles = <<>>
    /\ efiles = <<>>
    /\ ret = <<>>

NoError == [kind |-> "nil", keys |-> <<>>]

IdleScan ==
    /\ root = <<>>
    /\ includeDirs = <<>>
    /\ excludeDirs = <<>>
    /\ todo = <<>>
    /\ walkErr = "nil"
    /\ missing = {}
    /\ readFiles = {}
    /\ visited = {}
    /\ scanResult = NoError

IdleMain ==
    /\ checkCalls = 0
    /\ allowMissingEnv = FALSE
    /\ warned = FALSE
    /\ exitCode = 0
    /\ listened = FALSE

IdlePatterns ==
    /\ incPats = <<>>
    /\ excPats = <<>>

IdleMatch ==
    /\ qPath = <<>>
    /\ qIsFile = FALSE
    /\ selected = FALSE
    /\ qPattern = <<>>
    /\ qIsInclude = FALSE
    /\ matched = FALSE

IdleReplace ==
    /\ content = <<>>
    /\ output = <<>>
    /\ lookups = {}

InitReplace ==
    /\ pc = "call"
    /\ env \in EnvSet
    /\ content \in ContentSet
    /\ output = <<>>
    /\ lookups = {}
    /\ IdleFS
    /\ IdlePatterns
    /\ IdleMatch
    /\ IdleScan
    /\ IdleMain

ReplaceEnvVars ==
    /\ pc = "call"
    /\ output' = replaceEnvVars(env, content)
    /\ lookups' = LookedUp(content)
    /\ pc' = "done"
    /\ UNCHANGED <<env, content>>
    /\ UNCHANGED <<fsVars, patVars, matchVars, scanVars, mainVars>>

NextReplace == ReplaceEnvVars

SpecReplace == InitReplace /\ [][NextReplace]_vars

----------------------------------------------------------------------------
(* EnvFileSystem and EnvFile over an underlying http.FileSystem *)

MaxOpens == 2
MaxCloses == 2

Nil == 0

\* A readable directory, and a readable regular file that holds data.
DirEntry == [isDir |-> TRUE, data |-> <<>>, lstatOk |-> TRUE, readable |-> TRUE]

FileEntry(data) == [isDir |-> FALSE, data |-> data, lstatOk |-> TRUE, readable |-> TRUE]

\* What the served files hold.
DiskContents ==
    { <<>>,
      <<"a", "$", "{", "A", "}">>,
      <<"$", "{", "A", ":", "=", "d", "d", "}">> }

\* The environments files are served under: A unset, and A set.
ServeEnvSet == {EnvEmpty, [n \in {<<"A">>} |-> <<"v">>]}

\* The names requests ask for: a regular file, a directory, a name not there.
FileNames == {<<"i", "n", "d", "e", "x", ".", "h", "t", "m", "l">>, <<"d", "o", "c", "s">>, <<"n", "o", "f", "i", "l", "e">>}

\* Read's buffer lengths.
ReadSizes == {3}

\* Readdir's counts: all that is left (below 1), or at most so many.
ReadCounts == {-1, 0, 1}

\* The size a directory's own FileInfo reports.
DirSize == 4096

\* What a step of Open can fail at.
Faults == {"none", "open", "stat", "read"}

\* What a call returned: arg is the name Open was asked for, err the error's
\* own text, name and cause the file name and the wrapped error it carries, late whether the call reached an
\* underlying handle that was released already.
NoRet ==
    [op |-> "none", arg |-> <<>>, f |-> Nil, err |-> "nil", name |-> <<>>, cause |-> "nil",
     n |-> 0, size |-> 0, eof |-> FALSE, isDir |-> FALSE, entries |-> {}, late |-> FALSE]

\* DirInfos with the sizes the files would have as rewritten.
DirInfos_Rewritten(d, name) ==
    {[name |-> Base(q),
      size |-> IF d[q].isDir THEN DirSize ELSE Len(replaceEnvVars(env, d[q].data)),
      isDir |-> d[q].isDir] : q \in {r \in DOMAIN d : r # name /\ Dir(r) = name}}

\* The FileInfos the underlying directory handle lists for directory name:
\* the names and sizes as they are on disk.
DirInfos(d, name) ==
    {[name |-> Base(q), size |-> IF d[q].isDir THEN DirSize ELSE Len(d[q].data),
      isDir |-> d[q].isDir] : q \in {r \in DOMAIN d : r # name /\ Dir(r) = name}}

\* The underlying handle's Close (os.File): it releases an open handle, and
\* fails on a handle already released.
HandleClose(hs, h) ==
    [hs EXCEPT ![h] = [@ EXCEPT !.open = FALSE, !.closes = @ + 1]]

HandleCloseErr(hs, h) == IF hs[h].open THEN "nil" ELSE "file already closed"

\* NewEnvFile that rewrites only the files the startup scan read.
NewEnvFile_ScannedOnly(name, h, data) ==
    LET processedContent == IF name \in readFiles THEN replaceEnvVars(env, data) ELSE data
    IN  [kind |-> "env", name |-> name, file |-> h, data |-> processedContent,
         off |-> 0, replacedSize |-> Len(processedContent), isDir |-> FALSE,
         closeCalls |-> 0]

\* The EnvFile Open builds around handle h for the bytes read from it, with
\* replacedSize the length of the bytes as rewritten, not as read.
NewEnvFile_DiskSize(name, h, data) ==
    [kind |-> "env", name |-> name, file |-> h, data |-> replaceEnvVars(env, data),
     off |-> 0, replacedSize |-> Len(data), isDir |-> FALSE,
     closeCalls |-> 0]

\* NewEnvFile with a cache: the content an earlier Open made of the same
\* name is handed out again.
NewEnvFile_Cached(name, h, data) ==
    LET earlier == {f \in 1..Len(efiles) : efiles[f].kind = "env" /\ efiles[f].name = name}
        processedContent == IF earlier = {} THEN replaceEnvVars(env, data)
                            ELSE efiles[CHOOSE f \in earlier : TRUE].data
    IN  [kind |-> "env", name |-> name, file |-> h, data |-> processedContent,
         off |-> 0, replacedSize |-> Len(processedContent), isDir |-> FALSE,
         closeCalls |-> 0]

\* The EnvFile Open builds around handle h for the bytes read from it.
NewEnvFile(name, h, data) ==
    LET processedContent == replaceEnvVars(env, data)
    IN  [kind |-> "env", name |-> name, file |-> h, data |-> processedContent,
         off |-> 0, replacedSize |-> Len(processedContent), isDir |-> FALSE,
         closeCalls |-> 0]

\* What Open returns for a directory: the underlying handle itself.
RawDir(name, h) ==
    [kind |-> "raw", name |-> name, file |-> h, data |-> <<>>,
     off |-> 0, replacedSize |-> 0, isDir |-> TRUE,
     closeCalls |-> 0]

\* The error Open returns with a nil file: fmt.Errorf("... %s: %w", name, err).
OpenError(name, text, cause) ==
    [NoRet EXCEPT !.op = "Open", !.arg = name, !.err = text, !.name = name, !.cause = cause]

\* The bytes io.ReadAll hands back beside its error when the read fails.
ReadSoFar(data) == SubSeq(data, 1, Len(data) \div 2)

\* Open that keeps what was read when the read fails.
Open_KeepPartial(name, fault) ==
    /\ pc = "serve"
    /\ Len(handles) < MaxOpens
    /\ IF name \notin DOMAIN disk \/ fault = "open"
       THEN /\ ret' = OpenError(name, "failed to open file",
                                IF name \notin DOMAIN disk THEN "file does not exist"
                                ELSE "permission denied")
            /\ UNCHANGED <<handles, efiles>>
       ELSE LET h == Len(handles) + 1
                opened == Append(handles, [name |-> name, open |-> TRUE, closes |-> 0,
                                           listed |-> {}])
            IN  IF fault = "stat"
                THEN /\ handles' = HandleClose(opened, h)
                     /\ ret' = OpenError(name, "failed to stat file", "stat error")
                     /\ UNCHANGED efiles
                ELSE IF disk[name].isDir
                THEN /\ handles' = opened
                     /\ efiles' = Append(efiles, RawDir(name, h))
                     /\ ret' = [NoRet EXCEPT !.op = "Open", !.arg = name, !.f = Len(efiles) + 1]
                ELSE IF fault = "read"
                THEN /\ handles' = opened
                     /\ efiles' = Append(efiles, NewEnvFile(name, h, ReadSoFar(disk[name].data)))
                     /\ ret' = [NoRet EXCEPT !.op = "Open", !.arg = name, !.f = Len(efiles) + 1]
                ELSE /\ handles' = opened
                     /\ efiles' = Append(efiles, NewEnvFile(name, h, disk[name].data))
                     /\ ret' = [NoRet EXCEPT !.op = "Open", !.arg = name, !.f = Len(efiles) + 1]
    /\ UNCHANGED <<pc, env, disk>>
    /\ UNCHANGED <<replaceVars, patVars, matchVars, scanVars, mainVars>>

\* Open that returns the read's error without closing the file first.
Open_LeakOnReadError(name, fault) ==
    /\ pc = "serve"
    /\ Len(handles) < MaxOpens
    /\ IF name \notin DOMAIN disk \/ fault = "open"
       THEN /\ ret' = OpenError(name, "failed to open file",
                                IF name \notin DOMAIN disk THEN "file does not exist"
                                ELSE "permission denied")
            /\ UNCHANGED <<handles, efiles>>
       ELSE LET h == Len(handles) + 1
                opened == Append(handles, [name |-> name, open |-> TRUE, closes |-> 0,
                                           listed |-> {}])
            IN  IF fault = "stat"
                THEN /\ handles' = HandleClose(opened, h)
                     /\ ret' = OpenError(name, "failed to stat file", "stat error")
                     /\ UNCHANGED efiles
                ELSE IF disk[name].isDir
                THEN /\ handles' = opened
                     /\ efiles' = Append(efiles, RawDir(name, h))
                     /\ ret' = [NoRet EXCEPT !.op = "Open", !.arg = name, !.f = Len(efiles) + 1]
                ELSE IF fault = "read"
                THEN /\ handles' = opened
                     /\ ret' = OpenError(name, "failed to read file", "read error")
                     /\ UNCHANGED efiles
                ELSE /\ handles' = opened
                     /\ efiles' = Append(efiles, NewEnvFile(name, h, disk[name].data))
                     /\ ret' = [NoRet EXCEPT !.op = "Open", !.arg = name, !.f = Len(efiles) + 1]
    /\ UNCHANGED <<pc, env, disk>>
    /\ UNCHANGED <<replaceVars, patVars, matchVars, scanVars, mainVars>>

\* EnvFileSystem.Open(name); fault is the step that fails, if any.
Open(name, fault) ==
    /\ pc = "serve"
    /\ Len(handles) < MaxOpens
    /\ IF name \notin DOMAIN disk \/ fault = "open"
       THEN /\ ret' = OpenError(name, "failed to open file",
                                IF name \notin DOMAIN disk THEN "file does not exist"
                                ELSE "permission denied")
            /\ UNCHANGED <<handles, efiles>>
       ELSE LET h == Len(handles) + 1
                opened == Append(handles, [name |-> name, open |-> TRUE, closes |-> 0,
                                           listed |-> {}])
            IN  IF fault = "stat"
                THEN /\ handles' = HandleClose(opened, h)
                     /\ ret' = OpenError(name, "failed to stat file", "stat error")
                     /\ UNCHANGED efiles
                ELSE IF disk[name].isDir
                THEN /\ handles' = opened
                     /\ efiles' = Append(efiles, RawDir(name, h))
                     /\ ret' = [NoRet EXCEPT !.op = "Open", !.arg = name, !.f = Len(efiles) + 1]
                ELSE IF fault = "read"
                THEN /\ handles' = HandleClose(opened, h)
                     /\ ret' = OpenError(name, "failed to read file", "read error")
                     /\ UNCHANGED efiles
                ELSE /\ handles' = opened
                     /\ efiles' = Append(efiles, NewEnvFile(name, h, disk[name].data))
                     /\ ret' = [NoRet EXCEPT !.op = "Open", !.arg = name, !.f = Len(efiles) + 1]
    /\ UNCHANGED <<pc, env, disk>>
    /\ UNCHANGED <<replaceVars, patVars, matchVars, scanVars, mainVars>>

\* EnvFile.Close, and Close of the handle Open returned for a directory.
Close(f) ==
    /\ pc = "serve"
    /\ f \in 1..Len(efiles)
    /\ efiles[f].closeCalls < MaxCloses
    /\ efiles' = [efiles EXCEPT ![f].closeCalls = @ + 1]
    /\ IF efiles[f].kind = "env" /\ efiles[f].file = Nil
       THEN /\ ret' = [NoRet EXCEPT !.op = "Close", !.f = f]
            /\ UNCHANGED handles
       ELSE /\ ret' = [NoRet EXCEPT !.op = "Close", !.f = f,
                                    !.err = HandleCloseErr(handles, efiles[f].file),
                                    !.late = ~handles[efiles[f].file].open]
            /\ handles' = HandleClose(handles, efiles[f].file)
    /\ UNCHANGED <<pc, env, disk>>
    /\ UNCHANGED <<replaceVars, patVars, matchVars, scanVars, mainVars>>

\* EnvFile.Stat: the FileInfo kept from Open with Size() overridden; for a
\* directory the underlying handle's own Stat.
Stat(f) ==
    /\ pc = "serve"
    /\ f \in 1..Len(efiles)
    /\ IF efiles[f].kind = "env"
       THEN ret' = [NoRet EXCEPT !.op = "Stat", !.f = f, !.size = efiles[f].replacedSize]
       ELSE IF handles[efiles[f].file].open
       THEN ret' = [NoRet EXCEPT !.op = "Stat", !.f = f, !.size = DirSize, !.isDir = TRUE]
       ELSE ret' = [NoRet EXCEPT !.op = "Stat", !.f = f, !.err = "file already closed",
                                 !.late = TRUE]
    /\ UNCHANGED <<pc, env, disk, handles, efiles>>
    /\ UNCHANGED <<replaceVars, patVars, matchVars, scanVars, mainVars>>

\* Readdir that lists nothing and reports no error for a regular file.
Readdir_EmptyForFile(f, count) ==
    /\ pc = "serve"
    /\ f \in 1..Len(efiles)
    /\ LET h == efiles[f].file
       IN  IF efiles[f].kind = "env" /\ h = Nil
           THEN /\ ret' = [NoRet EXCEPT !.op = "Readdir", !.f = f, !.n = count,
                                        !.err = "file is closed"]
                /\ UNCHANGED handles
           ELSE IF ~handles[h].open
           THEN /\ ret' = [NoRet EXCEPT !.op = "Readdir", !.f = f, !.n = count,
                                        !.err = "file already closed", !.late = TRUE]
                /\ UNCHANGED handles
           ELSE LET remaining == IF disk[handles[h].name].isDir
                                 THEN DirInfos(disk, handles[h].name) \ handles[h].listed
                                 ELSE {}
                IN  IF count <= 0
                    THEN /\ ret' = [NoRet EXCEPT !.op = "Readdir", !.f = f, !.n = count,
                                                 !.entries = remaining]
                         /\ handles' = [handles EXCEPT ![h].listed = @ \cup remaining]
                    ELSE IF remaining = {}
                    THEN /\ ret' = [NoRet EXCEPT !.op = "Readdir", !.f = f, !.n = count,
                                                 !.err = "EOF", !.eof = TRUE]
                         /\ UNCHANGED handles
                    ELSE \E batch \in SUBSET remaining :
                             /\ Cardinality(batch) = IF count < Cardinality(remaining) THEN count
                                                    ELSE Cardinality(remaining)
                             /\ ret' = [NoRet EXCEPT !.op = "Readdir", !.f = f, !.n = count,
                                                     !.entries = batch]
                             /\ handles' = [handles EXCEPT ![h].listed = @ \cup batch]
    /\ UNCHANGED <<pc, env, disk, efiles>>
    /\ UNCHANGED <<replaceVars, patVars, matchVars, scanVars, mainVars>>

\* EnvFile.Readdir(count), and Readdir(count) of the handle Open returned for
\* a directory. The underlying handle hands out the entries it has not handed
\* out yet: all of them for a count of 0 or less, at most count of them in
\* the directory's own order otherwise, with io.EOF when none is left; for a
\* regular file it fails whatever the count is.
Readdir(f, count) ==
    /\ pc = "serve"
    /\ f \in 1..Len(efiles)
    /\ LET h == efiles[f].file
       IN  IF efiles[f].kind = "env" /\ h = Nil
           THEN /\ ret' = [NoRet EXCEPT !.op = "Readdir", !.f = f, !.n = count,
                                        !.err = "file is closed"]
                /\ UNCHANGED handles
           ELSE IF ~handles[h].open
           THEN /\ ret' = [NoRet EXCEPT !.op = "Readdir", !.f = f, !.n = count,
                                        !.err = "file already closed", !.late = TRUE]
                /\ UNCHANGED handles
           ELSE IF ~disk[handles[h].name].isDir
           THEN /\ ret' = [NoRet EXCEPT !.op = "Readdir", !.f = f, !.n = count,
                                        !.err = "not a directory"]
                /\ UNCHANGED handles
           ELSE LET remaining == DirInfos(disk, handles[h].name) \ handles[h].listed
                IN  IF count <= 0
                    THEN /\ ret' = [NoRet EXCEPT !.op = "Readdir", !.f = f, !.n = count,
                                                 !.entries = remaining]
                         /\ handles' = [handles EXCEPT ![h].listed = @ \cup remaining]
                    ELSE IF remaining = {}
                    THEN /\ ret' = [NoRet EXCEPT !.op = "Readdir", !.f = f, !.n = count,
                                                 !.err = "EOF", !.eof = TRUE]
                         /\ UNCHANGED handles
                    ELSE \E batch \in SUBSET remaining :
                             /\ Cardinality(batch) = IF count < Cardinality(remaining) THEN count
                                                    ELSE Cardinality(remaining)
                             /\ ret' = [NoRet EXCEPT !.op = "Readdir", !.f = f, !.n = count,
                                                     !.entries = batch]
                             /\ handles' = [handles EXCEPT ![h].listed = @ \cup batch]
    /\ UNCHANGED <<pc, env, disk, efiles>>
    /\ UNCHANGED <<replaceVars, patVars, matchVars, scanVars, mainVars>>

\* EnvFile.Read with a buffer of n bytes: the embedded bytes.Reader's Read.
Read(f, n) ==
    /\ pc = "serve"
    /\ f \in 1..Len(efiles)
    /\ efiles[f].kind = "env"
    /\ LET left == Len(efiles[f].data) - efiles[f].off
           got == IF n < left THEN n ELSE left
       IN  IF left <= 0
           THEN /\ ret' = [NoRet EXCEPT !.op = "Read", !.f = f, !.err = "EOF", !.eof = TRUE]
                /\ UNCHANGED efiles
           ELSE /\ ret' = [NoRet EXCEPT !.op = "Read", !.f = f, !.n = got]
                /\ efiles' = [efiles EXCEPT ![f].off = @ + got]
    /\ UNCHANGED <<pc, env, disk, handles>>
    /\ UNCHANGED <<replaceVars, patVars, matchVars, scanVars, mainVars>>

\* EnvFile.Seek(0, io.SeekStart): the embedded bytes.Reader's Seek.
Seek(f) ==
    /\ pc = "serve"
    /\ f \in 1..Len(efiles)
    /\ efiles[f].kind = "env"
    /\ efiles[f].off > 0
    /\ ret' = [NoRet EXCEPT !.op = "Seek", !.f = f]
    /\ efiles' = [efiles EXCEPT ![f].off = 0]
    /\ UNCHANGED <<pc, env, disk, handles>>
    /\ UNCHANGED <<replaceVars, patVars, matchVars, scanVars, mainVars>>

\* The served trees: index.html with each content, beside the directory docs
\* that holds a file and a directory.
DiskSet ==
    { [n \in {<<"i", "n", "d", "e", "x", ".", "h", "t", "m", "l">>, <<"d", "o", "c", "s">>, <<"d", "o", "c", "s", "/", "a", ".", "h", "t", "m", "l">>, <<"d", "o", "c", "s", "/", "v", "1">>} |->
          IF n \in {<<"d", "o", "c", "s">>, <<"d", "o", "c", "s", "/", "v", "1">>} THEN DirEntry
          ELSE IF n = <<"i", "n", "d", "e", "x", ".", "h", "t", "m", "l">> THEN FileEntry(d)
          ELSE FileEntry(<<"$", "{", "A", ":", "=", "d", "d", "}">>)] : d \in DiskContents }

InitFS ==
    /\ pc = "serve"
    /\ env \in ServeEnvSet
    /\ disk \in DiskSet
    /\ handles = <<>>
    /\ efiles = <<>>
    /\ ret = NoRet
    /\ IdleReplace
    /\ IdlePatterns
    /\ IdleMatch
    /\ IdleScan
    /\ IdleMain

NextFS ==
    \/ \E name \in FileNames, fault \in Faults : Open(name, fault)
    \/ \E f \in 1..MaxOpens : Close(f)
    \/ \E f \in 1..MaxOpens : Stat(f)
    \/ \E f \in 1..MaxOpens : Readdir(f, -1)
    \/ \E f \in 1..MaxOpens, n \in ReadSizes : Read(f, n)
    \/ \E f \in 1..MaxOpens : Seek(f)

SpecFS == InitFS /\ [][NextFS]_vars

----------------------------------------------------------------------------
(* Requests served while the environment and the files change: the calls of *)
(* the requests in any order, one call a step                               *)

\* os.Setenv between two calls: a variable that was unset is set.
Setenv(e) ==
    /\ pc = "serve"
    /\ env = EnvEmpty
    /\ e # env
    /\ env' = e
    /\ UNCHANGED <<pc, disk, handles, efiles, ret>>
    /\ UNCHANGED <<replaceVars, patVars, matchVars, scanVars, mainVars>>

\* A regular file of the served tree is written anew between two calls.
WriteFile(name, old, new) ==
    /\ pc = "serve"
    /\ name \in DOMAIN disk
    /\ ~disk[name].isDir
    /\ disk[name].data = old
    /\ disk' = [disk EXCEPT ![name] = FileEntry(new)]
    /\ UNCHANGED <<pc, env, handles, efiles, ret>>
    /\ UNCHANGED <<replaceVars, patVars, matchVars, scanVars, mainVars>>

\* Serving starts with A unset and index.html holding a${A}.
InitServe ==
    /\ InitFS
    /\ env = EnvEmpty
    /\ disk[<<"i", "n", "d", "e", "x", ".", "h", "t", "m", "l">>].data = <<"a", "$", "{", "A", "}">>

\* The calls of the requests, Open, Read, Stat and Close, and the changes
\* around them: A is set, index.html is rewritten.
NextServe ==
    \/ \E name \in FileNames, fault \in {"none", "read"} : Open(name, fault)
    \/ \E f \in 1..MaxOpens : Close(f)
    \/ \E f \in 1..MaxOpens : Stat(f)
    \/ \E f \in 1..MaxOpens, n \in ReadSizes : Read(f, n)
    \/ \E e \in ServeEnvSet : Setenv(e)
    \/ WriteFile(<<"i", "n", "d", "e", "x", ".", "h", "t", "m", "l">>, <<"a", "$", "{", "A", "}">>, <<"$", "{", "A", ":", "=", "d", "d", "}">>)

SpecServe == InitServe /\ [][NextServe]_vars

\* Listings on their own: files and directories are opened, listed with each
\* count and closed.
NextDir ==
    \/ \E name \in FileNames : Open(name, "none")
    \/ \E f \in 1..MaxOpens : Close(f)
    \/ \E f \in 1..MaxOpens, count \in ReadCounts : Readdir(f, count)

SpecDir == InitServe /\ [][NextDir]_vars

----------------------------------------------------------------------------
(* The matcher on its own: one call of shouldInclude *)

MaxPatterns == 1

\* The paths asked about (envfs_test.go and the README's examples).
MatchPaths ==
    { <<"d", "o", "c", "s">>, <<"d", "o", "c", "s", "/", "a", "p", "i">>, <<"s", "r", "c", "/", "d", "o", "c", "s">>, <<"d", "o", "c", "u", "m", "e", "n", "t", "a", "t", "i", "o", "n">>, <<"a", "s", "s", "e", "t", "s", "-", "o", "l", "d">>,
      <<"s", "r", "c", "/", "t", "e", "s", "t", "-", "u", "n", "i", "t">>, <<"t", "e", "s", "t", "i", "n", "g">>, <<"t", "m", "p">>, <<"t", "m", "p", "/", "c", "a", "c", "h", "e", "/", "x", ".", "h", "t", "m", "l">>,
      <<"d", "o", "c", "s", "/", "v", "1", "/", "i", "n", "d", "e", "x", ".", "h", "t", "m", "l">>, <<"i", "n", "d", "e", "x", ".", "h", "t", "m", "l">>, <<"s", "r", "c", "/", "a", "p", "p", ".", "j", "s">>, <<"t", "e", "s", "t", "-", "d", "a", "t", "a", ".", "j", "s", "o", "n">> }

\* The patterns: literal and glob, directory and file patterns.
MatchPatterns ==
    { <<"d", "o", "c", "s">>, <<" ", "a", "s", "s", "e", "t", "s", " ">>, <<"n", "o", "d", "e", "_", "m", "o", "d", "u", "l", "e", "s">>, <<"t", "m", "p", "/", "c", "a", "c", "h", "e">>, <<"t", "e", "s", "t", "-", "*">>,
      <<"d", "o", "c", "s", "/", "v", "*">>, <<"*", ".", "h", "t", "m", "l">>, <<"s", "r", "c", "/", "*", ".", "j", "s">> }

\* The lists of at most n patterns.
RECURSIVE PatternLists(_)
PatternLists(n) ==
    IF n = 0 THEN {<<>>}
    ELSE LET shorter == PatternLists(n - 1)
         IN  shorter \cup {Append(ps, q) : ps \in shorter, q \in MatchPatterns}

\* The lists of TestShouldIncludeFileVsDirectory.
TestPatternLists == { <<<<"*", ".", "j", "s">>, <<"s", "r", "c">>>>, <<<<"*", ".", "t", "m", "p">>>> }

PatternListSet == PatternLists(MaxPatterns) \cup TestPatternLists

InitMatch ==
    /\ pc = "call"
    /\ env = EnvEmpty
    /\ incPats \in PatternListSet
    /\ excPats \in PatternListSet
    /\ qPath \in MatchPaths
    /\ qIsFile \in BOOLEAN
    /\ selected = FALSE
    /\ qPattern = <<>>
    /\ qIsInclude = FALSE
    /\ matched = FALSE
    /\ IdleReplace
    /\ IdleFS
    /\ IdleScan
    /\ IdleMain

ShouldInclude ==
    /\ pc = "call"
    /\ selected' = shouldInclude(qPath, incPats, excPats, qIsFile)
    /\ pc' = "done"
    /\ UNCHANGED <<env, incPats, excPats, qPath, qIsFile, qPattern, qIsInclude, matched>>
    /\ UNCHANGED <<replaceVars, fsVars, scanVars, mainVars>>

NextMatch == ShouldInclude

SpecMatch == InitMatch /\ [][NextMatch]_vars

----------------------------------------------------------------------------
(* matchPattern on its own: one call *)

\* The paths asked about (TestMatchesPattern, TestMatchPatternEdgeCases,
\* TestShouldExcludeDir and the README's examples).
PatternPaths ==
    { <<>>, <<"d", "o", "c", "s">>, <<"d", "o", "c", "s", "/", "a", "p", "i">>, <<"d", "o", "c", "s", "/", "a", "p", "i", "/", "v", "1">>, <<"s", "r", "c", "/", "d", "o", "c", "s">>, <<"d", "o", "c", "u", "m", "e", "n", "t", "a", "t", "i", "o", "n">>,
      <<"a", "s", "s", "e", "t", "s">>, <<"a", "s", "s", "e", "t", "s", "-", "o", "l", "d">>, <<"T", "e", "s", "t">>, <<"t", "e", "s", "t">>, <<"t", "e", "s", "t", "-", "u", "n", "i", "t">>, <<"s", "r", "c", "/", "t", "e", "s", "t", "-", "u", "n", "i", "t">>,
      <<"t", "e", "s", "t", "i", "n", "g">>, <<"t", "e", "s", "t", "1">>, <<"t", "e", "s", "t", "1", "2">>, <<"s", "r", "c", "/", "t", "e", "s", "t", "2">>, <<"t", "e", "s", "t", "4">>, <<"f", "i", "l", "e", "[", "1", "]">>, <<"f", "i", "l", "e", "1">>,
      <<"t", "m", "p">>, <<"t", "m", "p", "/", "c", "a", "c", "h", "e">>, <<"t", "m", "p", "/", "o", "t", "h", "e", "r">>, <<"d", "o", "c", "s", "/", "v", "1">>, <<"d", "o", "c", "s", "/", "v", "1", "-", "b", "e", "t", "a">>,
      <<"d", "o", "c", "s", "/", "v", "1", "-", "b", "e", "t", "a", "/", "x", ".", "h", "t", "m", "l">> }

\* The patterns: literal and glob, with and without "/", one with blanks
\* around it and one that filepath.Match rejects as malformed.
PatternSet ==
    { <<>>, <<"d", "o", "c", "s">>, <<"d", "o", "c", "s", "/", "a", "p", "i">>, <<"a", "s", "s", "e", "t", "s">>, <<" ", "a", "s", "s", "e", "t", "s", " ">>, <<"t", "e", "s", "t">>, <<"T", "e", "s", "t">>, <<"t", "m", "p", "/", "c", "a", "c", "h", "e">>,
      <<"t", "e", "s", "t", "-", "*">>, <<"t", "e", "s", "t", "?">>, <<"t", "e", "s", "t", "[", "1", "2", "3", "]">>, <<"f", "i", "l", "e", "[", "1", "]">>, <<"f", "i", "l", "e", "[", "1", "-", "3", "]">>, <<"[", "a">>,
      <<"d", "o", "c", "s", "/", "v", "1", "-", "*">>, <<"d", "o", "c", "s", "/", "v", "*">> }

InitPattern ==
    /\ pc = "call"
    /\ env = EnvEmpty
    /\ qPath \in PatternPaths
    /\ qPattern \in PatternSet
    /\ qIsInclude \in BOOLEAN
    /\ matched = FALSE
    /\ qIsFile = FALSE
    /\ selected = FALSE
    /\ IdlePatterns
    /\ IdleReplace
    /\ IdleFS
    /\ IdleScan
    /\ IdleMain

MatchPattern ==
    /\ pc = "call"
    /\ matched' = matchPattern(qPath, qPattern, qIsInclude)
    /\ pc' = "done"
    /\ UNCHANGED <<env, qPath, qPattern, qIsInclude, qIsFile, selected>>
    /\ UNCHANGED <<replaceVars, fsVars, patVars, scanVars, mainVars>>

NextPattern == MatchPattern

SpecPattern == InitPattern /\ [][NextPattern]_vars

----------------------------------------------------------------------------
(* checkEnvVarsInFiles: the startup scan, one step per call of the function *)
(* it hands to filepath.Walk. Paths are relative to the root, "." the root. *)

\* The loop over the matches of a file: the names that are not in the
\* environment and come with no default and no ":=". Go's match[k] is
\* groups[k + 1] here.
DetectMissing_EmptyDefault(e, data) ==
    UNION {{matches[k].groups[2] : k \in
               {j \in 1..Len(matches) :
                   /\ ~LookupEnv(e, matches[j].groups[2]).exists
                   /\ matches[j].groups[4] = <<>>}}
           : matches \in {FindAllStringSubmatch(data)}}

DetectMissing(e, data) ==
    LET Reported(match) ==
            LET varName == match[2]
                hasDefault == Len(match) > 3 /\ match[4] # <<>>
                defaultValue == IF hasDefault THEN match[4] ELSE <<>>
            IN  /\ Len(match) >= 2
                /\ ~LookupEnv(e, varName).exists
                /\ defaultValue = <<>>
                /\ (Len(match) <= 2 \/ match[3] # <<":", "=">>)
    IN  UNION {{matches[k].groups[2] : k \in
                   {j \in 1..Len(matches) : Reported(matches[j].groups)}}
               : matches \in {FindAllStringSubmatch(data)}}

\* walkFn that never answers SkipDir for a directory.
walkFn_NoSkipDir(e, d, include, exclude, p, err) ==
    LET relPath == ToSlash(p)
        none == [ret |-> "nil", found |-> {}, read |-> FALSE, looked |-> {}]
    IN  IF err THEN none
        ELSE IF d[p].isDir THEN none
        ELSE IF ~shouldInclude(relPath, include, exclude, TRUE) THEN none
        ELSE IF ~d[p].readable THEN [none EXCEPT !.read = TRUE]
        ELSE [ret |-> "nil", found |-> DetectMissing(e, d[p].data), read |-> TRUE,
              looked |-> LookedUp(d[p].data)]

\* walkFn that prunes directories by the include patterns although a file
\* pattern is among them.
walkFn_PruneByInclude(e, d, include, exclude, p, err) ==
    LET relPath == ToSlash(p)
        none == [ret |-> "nil", found |-> {}, read |-> FALSE, looked |-> {}]
    IN  IF err THEN none
        ELSE IF d[p].isDir
        THEN IF relPath = <<".">> THEN none
             ELSE IF ~shouldInclude(relPath, include, exclude, FALSE)
                  THEN [none EXCEPT !.ret = "SkipDir"]
                  ELSE none
        ELSE IF ~shouldInclude(relPath, include, exclude, TRUE) THEN none
        ELSE IF ~d[p].readable THEN [none EXCEPT !.read = TRUE]
        ELSE [ret |-> "nil", found |-> DetectMissing(e, d[p].data), read |-> TRUE,
              looked |-> LookedUp(d[p].data)]

\* walkFn that hands the error of an entry back to filepath.Walk.
walkFn_ReturnErr(e, d, include, exclude, p, err) ==
    LET relPath == ToSlash(p)
        hasFilePats == hasFilePatterns(include)
        none == [ret |-> "nil", found |-> {}, read |-> FALSE, looked |-> {}]
    IN  IF err THEN [none EXCEPT !.ret = "entry error"]
        ELSE IF d[p].isDir
        THEN IF relPath = <<".">> THEN none
             ELSE IF hasFilePats
             THEN IF ~shouldInclude(relPath, <<>>, exclude, FALSE)
                  THEN [none EXCEPT !.ret = "SkipDir"]
                  ELSE none
             ELSE IF ~shouldInclude(relPath, include, exclude, FALSE)
                  THEN [none EXCEPT !.ret = "SkipDir"]
                  ELSE none
        ELSE IF ~shouldInclude(relPath, include, exclude, TRUE) THEN none
        ELSE IF ~d[p].readable THEN [none EXCEPT !.read = TRUE, !.ret = "read error"]
        ELSE [ret |-> "nil", found |-> DetectMissing(e, d[p].data), read |-> TRUE,
              looked |-> LookedUp(d[p].data)]

\* The function handed to filepath.Walk, for the entry at relative path p of
\* tree d; err says that Walk could not stat the entry or list the directory.
\* It returns nil or SkipDir, the names found, whether it read the file and
\* the names it handed to os.LookupEnv.
walkFn(e, d, include, exclude, p, err) ==
    LET relPath == ToSlash(p)
        hasFilePats == hasFilePatterns(include)
        none == [ret |-> "nil", found |-> {}, read |-> FALSE, looked |-> {}]
    IN  IF err THEN none
        ELSE IF d[p].isDir
        THEN IF relPath = <<".">> THEN none
             ELSE IF hasFilePats
             THEN IF ~shouldInclude(relPath, <<>>, exclude, FALSE)
                  THEN [none EXCEPT !.ret = "SkipDir"]
                  ELSE none
             ELSE IF ~shouldInclude(relPath, include, exclude, FALSE)
                  THEN [none EXCEPT !.ret = "SkipDir"]
                  ELSE none
        ELSE IF ~shouldInclude(relPath, include, exclude, TRUE) THEN none
        ELSE IF ~d[p].readable THEN [none EXCEPT !.read = TRUE]
        ELSE [ret |-> "nil", found |-> DetectMissing(e, d[p].data), read |-> TRUE,
              looked |-> LookedUp(d[p].data)]

\* Byte-wise order of strings: the order readDirNames sorts names in.
RECURSIVE LessSeq(_, _)
LessSeq(a, b) ==
    IF b = <<>> THEN FALSE
    ELSE IF a = <<>> THEN TRUE
    ELSE IF Head(a) = Head(b) THEN LessSeq(Tail(a), Tail(b))
    ELSE Ord(Head(a)) < Ord(Head(b))

\* The elements of set in that order.
SortedSeq(set) ==
    [i \in 1..Cardinality(set) |->
        CHOOSE x \in set : Cardinality({y \in set : LessSeq(y, x)}) = i - 1]

\* The entries of directory p, in the order Walk visits them.
Children(d, p) ==
    The({SortedSeq(names) : names \in {{q \in DOMAIN d : q # <<".">> /\ Dir(q) = p}}})

\* The orders a map's keys may be listed in.
KeyOrders(set) ==
    {ks \in [1..Cardinality(set) -> set] : \A i, j \in 1..Cardinality(set) : ks[i] = ks[j] => i = j}

\* The trees scanned: every file with a token of its own name; tokens with
\* defaults, with empty defaults, inside a default and of one name in two
\* files; entries that cannot be read; a root that does not exist.
TreeNames ==
    (   <<".">> :> [isDir |-> TRUE, data |-> <<>>, lstatOk |-> TRUE, readable |-> TRUE]
     @@ <<"d", "o", "c", "s">> :> [isDir |-> TRUE, data |-> <<>>, lstatOk |-> TRUE, readable |-> TRUE]
     @@ <<"d", "o", "c", "s", "/", "v", "1">> :> [isDir |-> TRUE, data |-> <<>>, lstatOk |-> TRUE, readable |-> TRUE]
     @@ <<"s", "r", "c">> :> [isDir |-> TRUE, data |-> <<>>, lstatOk |-> TRUE, readable |-> TRUE]
     @@ <<"n", "o", "d", "e", "_", "m", "o", "d", "u", "l", "e", "s">> :> [isDir |-> TRUE, data |-> <<>>, lstatOk |-> TRUE, readable |-> TRUE]
     @@ <<"i", "n", "d", "e", "x", ".", "h", "t", "m", "l">> :> [isDir |-> FALSE, data |-> <<"$", "{", "R", "O", "O", "T", "}">>, lstatOk |-> TRUE, readable |-> TRUE]
     @@ <<"d", "o", "c", "s", "/", "a", ".", "h", "t", "m", "l">> :> [isDir |-> FALSE, data |-> <<"$", "{", "D", "A", "}">>, lstatOk |-> TRUE, readable |-> TRUE]
     @@ <<"d", "o", "c", "s", "/", "v", "1", "/", "b", ".", "h", "t", "m", "l">> :> [isDir |-> FALSE, data |-> <<"$", "{", "D", "B", "}">>, lstatOk |-> TRUE, readable |-> TRUE]
     @@ <<"s", "r", "c", "/", "a", "p", "p", ".", "j", "s">> :> [isDir |-> FALSE, data |-> <<"$", "{", "S", "R", "C", "}">>, lstatOk |-> TRUE, readable |-> TRUE]
     @@ <<"n", "o", "d", "e", "_", "m", "o", "d", "u", "l", "e", "s", "/", "m", ".", "j", "s">> :> [isDir |-> FALSE, data |-> <<"$", "{", "N", "M", "}">>, lstatOk |-> TRUE, readable |-> TRUE] )

TreeDefaults ==
    (   <<".">> :> [isDir |-> TRUE, data |-> <<>>, lstatOk |-> TRUE, readable |-> TRUE]
     @@ <<"d", "o", "c", "s">> :> [isDir |-> TRUE, data |-> <<>>, lstatOk |-> TRUE, readable |-> TRUE]
     @@ <<"d", "o", "c", "s", "/", "v", "1">> :> [isDir |-> TRUE, data |-> <<>>, lstatOk |-> TRUE, readable |-> TRUE]
     @@ <<"s", "r", "c">> :> [isDir |-> TRUE, data |-> <<>>, lstatOk |-> TRUE, readable |-> TRUE]
     @@ <<"n", "o", "d", "e", "_", "m", "o", "d", "u", "l", "e", "s">> :> [isDir |-> TRUE, data |-> <<>>, lstatOk |-> TRUE, readable |-> TRUE]
     @@ <<"i", "n", "d", "e", "x", ".", "h", "t", "m", "l">> :> [isDir |-> FALSE, data |-> <<"$", "{", "A", ":", "=", "d", "}", " ", "$", "{", "A", "}">>, lstatOk |-> TRUE, readable |-> TRUE]
     @@ <<"d", "o", "c", "s", "/", "a", ".", "h", "t", "m", "l">> :> [isDir |-> FALSE, data |-> <<"$", "{", "B", ":", "=", "}", "$", "{", "E", ":", "=", "$", "{", "F", "}", "}">>, lstatOk |-> TRUE, readable |-> TRUE]
     @@ <<"d", "o", "c", "s", "/", "v", "1", "/", "b", ".", "h", "t", "m", "l">> :> [isDir |-> FALSE, data |-> <<"x", "$", "{", "A", "}", "$", "{", "C", "}">>, lstatOk |-> TRUE, readable |-> TRUE]
     @@ <<"s", "r", "c", "/", "a", "p", "p", ".", "j", "s">> :> [isDir |-> FALSE, data |-> <<"$", "{", "C", ":", "=", "x", "}", "$", "{", "D", ":", "}">>, lstatOk |-> TRUE, readable |-> TRUE]
     @@ <<"n", "o", "d", "e", "_", "m", "o", "d", "u", "l", "e", "s", "/", "m", ".", "j", "s">> :> [isDir |-> FALSE, data |-> <<"$", "}", "{">>, lstatOk |-> TRUE, readable |-> TRUE] )

TreeUnreadable ==
    (   <<".">> :> [isDir |-> TRUE, data |-> <<>>, lstatOk |-> TRUE, readable |-> TRUE]
     @@ <<"d", "o", "c", "s">> :> [isDir |-> TRUE, data |-> <<>>, lstatOk |-> TRUE, readable |-> TRUE]
     @@ <<"d", "o", "c", "s", "/", "v", "1">> :> [isDir |-> TRUE, data |-> <<>>, lstatOk |-> TRUE, readable |-> TRUE]
     @@ <<"s", "r", "c">> :> [isDir |-> TRUE, data |-> <<>>, lstatOk |-> TRUE, readable |-> TRUE]
     @@ <<"n", "o", "d", "e", "_", "m", "o", "d", "u", "l", "e", "s">> :> [isDir |-> TRUE, data |-> <<>>, lstatOk |-> TRUE, readable |-> FALSE]
     @@ <<"i", "n", "d", "e", "x", ".", "h", "t", "m", "l">> :> [isDir |-> FALSE, data |-> <<"$", "{", "R", "O", "O", "T", "}">>, lstatOk |-> TRUE, readable |-> TRUE]
     @@ <<"d", "o", "c", "s", "/", "a", ".", "h", "t", "m", "l">> :> [isDir |-> FALSE, data |-> <<"$", "{", "D", "A", "}">>, lstatOk |-> TRUE, readable |-> FALSE]
     @@ <<"d", "o", "c", "s", "/", "v", "1", "/", "b", ".", "h", "t", "m", "l">> :> [isDir |-> FALSE, data |-> <<"$", "{", "D", "B", "}">>, lstatOk |-> TRUE, readable |-> TRUE]
     @@ <<"s", "r", "c", "/", "a", "p", "p", ".", "j", "s">> :> [isDir |-> FALSE, data |-> <<"$", "{", "S", "R", "C", "}">>, lstatOk |-> FALSE, readable |-> FALSE]
     @@ <<"n", "o", "d", "e", "_", "m", "o", "d", "u", "l", "e", "s", "/", "m", ".", "j", "s">> :> [isDir |-> FALSE, data |-> <<"$", "{", "N", "M", "}">>, lstatOk |-> TRUE, readable |-> TRUE] )

TreeNoRoot ==
    (<<".">> :> [isDir |-> TRUE, data |-> <<>>, lstatOk |-> FALSE, readable |-> FALSE])

\* The root is a regular file.
TreeRootFile ==
    (<<".">> :> [isDir |-> FALSE, data |-> <<"$", "{", "R", "O", "O", "T", "}">>, lstatOk |-> TRUE, readable |-> TRUE])

\* A directory named docs below src, and a directory api two levels below docs.
TreeNested ==
    (   <<".">> :> [isDir |-> TRUE, data |-> <<>>, lstatOk |-> TRUE, readable |-> TRUE]
     @@ <<"d", "o", "c", "s">> :> [isDir |-> TRUE, data |-> <<>>, lstatOk |-> TRUE, readable |-> TRUE]
     @@ <<"d", "o", "c", "s", "/", "a", ".", "h", "t", "m", "l">> :> [isDir |-> FALSE, data |-> <<"$", "{", "D", "A", "}">>, lstatOk |-> TRUE, readable |-> TRUE]
     @@ <<"d", "o", "c", "s", "/", "x">> :> [isDir |-> TRUE, data |-> <<>>, lstatOk |-> TRUE, readable |-> TRUE]
     @@ <<"d", "o", "c", "s", "/", "x", "/", "a", "p", "i">> :> [isDir |-> TRUE, data |-> <<>>, lstatOk |-> TRUE, readable |-> TRUE]
     @@ <<"d", "o", "c", "s", "/", "x", "/", "a", "p", "i", "/", "d", ".", "h", "t", "m", "l">> :> [isDir |-> FALSE, data |-> <<"$", "{", "A", "P", "I", "}">>, lstatOk |-> TRUE, readable |-> TRUE]
     @@ <<"s", "r", "c">> :> [isDir |-> TRUE, data |-> <<>>, lstatOk |-> TRUE, readable |-> TRUE]
     @@ <<"s", "r", "c", "/", "d", "o", "c", "s">> :> [isDir |-> TRUE, data |-> <<>>, lstatOk |-> TRUE, readable |-> TRUE]
     @@ <<"s", "r", "c", "/", "d", "o", "c", "s", "/", "c", ".", "h", "t", "m", "l">> :> [isDir |-> FALSE, data |-> <<"$", "{", "S", "D", "}">>, lstatOk |-> TRUE, readable |-> TRUE]
     @@ <<"s", "r", "c", "/", "a", "p", "p", ".", "j", "s">> :> [isDir |-> FALSE, data |-> <<"$", "{", "S", "R", "C", "}">>, lstatOk |-> TRUE, readable |-> TRUE] )

TreeSet == {TreeNames, TreeDefaults, TreeUnreadable, TreeNoRoot, TreeRootFile, TreeNested}

ScanEnvSet ==
    { EnvEmpty,
      [n \in {<<"A">>, <<"R", "O", "O", "T">>} |-> IF n = <<"A">> THEN <<>> ELSE <<"r">>],
      [n \in {<<"D", "A">>, <<"D", "B">>, <<"C">>} |-> <<"v">>],
      [n \in {<<"A">>, <<"C">>} |-> IF n = <<"A">> THEN <<>> ELSE <<"v">>] }

RootSet == {<<>>, <<"/", "s", "r", "v", "/", "h", "t", "t", "p">>}

IncludeSet == {<<>>, <<"d", "o", "c", "s">>, <<" ", "s", "r", "c", " ", ",", " ", ",", "d", "o", "c", "s">>, <<"*", ".", "h", "t", "m", "l">>, <<"d", "o", "c", "s", "/", "v", "*">>, <<"s", "r", "c", "/", "*", ".", "j", "s">>, <<"d", "o", "c", "s", "/", "*", "/", "a", "p", "i">>}

ExcludeSet == {<<>>, <<"n", "o", "d", "e", "_", "m", "o", "d", "u", "l", "e", "s">>, <<"d", "o", "c", "s">>, <<"d", "o", "c", "s", "/", "v", "1", ",", "s", "r", "c">>, <<"*", ".", "j", "s">>}

\* checkEnvVarsInFiles with the patterns parsed before the root is checked.
CheckEnvVarsInFiles_ParseFirst ==
    /\ pc = "main"
    /\ checkCalls' = checkCalls + 1
    /\ incPats' = parsePatterns(includeDirs)
    /\ excPats' = parsePatterns(excludeDirs)
    /\ IF root = <<>>
       THEN /\ scanResult' = [kind |-> "root path cannot be empty", keys |-> <<>>]
            /\ pc' = "returned"
            /\ UNCHANGED todo
       ELSE /\ todo' = <<<<".">>>>
            /\ pc' = "walk"
            /\ UNCHANGED scanResult
    /\ UNCHANGED <<env, disk, root, includeDirs, excludeDirs, walkErr, missing, readFiles,
                   visited>>
    /\ UNCHANGED <<allowMissingEnv, warned, exitCode, listened>>
    /\ UNCHANGED <<replaceVars, matchVars, handles, efiles, ret>>

\* checkEnvVarsInFiles up to the call of filepath.Walk: the root check and
\* the parsing of the patterns.
CheckEnvVarsInFiles ==
    /\ pc = "main"
    /\ checkCalls' = checkCalls + 1
    /\ IF root = <<>>
       THEN /\ scanResult' = [kind |-> "root path cannot be empty", keys |-> <<>>]
            /\ pc' = "returned"
            /\ UNCHANGED <<incPats, excPats, todo>>
       ELSE /\ incPats' = parsePatterns(includeDirs)
            /\ excPats' = parsePatterns(excludeDirs)
            /\ todo' = <<<<".">>>>
            /\ pc' = "walk"
            /\ UNCHANGED scanResult
    /\ UNCHANGED <<env, disk, root, includeDirs, excludeDirs, walkErr, missing, readFiles,
                   visited>>
    /\ UNCHANGED <<allowMissingEnv, warned, exitCode, listened>>
    /\ UNCHANGED <<replaceVars, matchVars, handles, efiles, ret>>

\* One entry of the walk: Walk stats it, lists it when it is a directory,
\* calls walkFn, and goes down into a directory that could be listed unless
\* walkFn said SkipDir.
WalkStep ==
    /\ pc = "walk"
    /\ todo # <<>>
    /\ walkErr = "nil"
    /\ LET p == Head(todo)
           isDir == disk[p].lstatOk /\ disk[p].isDir
           err == ~disk[p].lstatOk \/ (isDir /\ ~disk[p].readable)
       IN  \E cb \in {walkFn(env, disk, incPats, excPats, p, err)} :
           /\ missing' = missing \cup cb.found
           /\ readFiles' = IF cb.read THEN readFiles \cup {p} ELSE readFiles
           /\ visited' = visited \cup {p}
           /\ lookups' = lookups \cup cb.looked
           /\ walkErr' = IF cb.ret \in {"nil", "SkipDir"} THEN walkErr ELSE cb.ret
           /\ todo' = IF isDir /\ ~err /\ cb.ret = "nil"
                      THEN Children(disk, p) \o Tail(todo)
                      ELSE Tail(todo)
    /\ UNCHANGED <<pc, env, disk, root, includeDirs, excludeDirs, scanResult, incPats, excPats>>
    /\ UNCHANGED mainVars
    /\ UNCHANGED <<content, output, matchVars, handles, efiles, ret>>

\* checkEnvVarsInFiles after the walk: the error it returns.
WalkDone ==
    /\ pc = "walk"
    /\ todo = <<>> \/ walkErr # "nil"
    /\ \E keys \in KeyOrders(missing) :
           scanResult' =
               IF walkErr # "nil"
               THEN [kind |-> "error walking directory tree", keys |-> <<>>]
               ELSE IF Cardinality(missing) > 0
               THEN [kind |-> "missing environment variables", keys |-> keys]
               ELSE NoError
    /\ pc' = "returned"
    /\ UNCHANGED <<env, disk, root, includeDirs, excludeDirs, todo, walkErr, missing,
                   readFiles, visited, incPats, excPats>>
    /\ UNCHANGED mainVars
    /\ UNCHANGED <<replaceVars, matchVars, handles, efiles, ret>>

----------------------------------------------------------------------------
(* main: the check of the served tree, then the server *)

\* main with the error of the check logged as a warning whatever the flag.
MainAfterCheck_NeverFatal ==
    /\ pc = "returned"
    /\ warned' = (scanResult.kind # "nil")
    /\ pc' = "setup"
    /\ UNCHANGED exitCode
    /\ UNCHANGED <<checkCalls, allowMissingEnv, listened, env, disk>>
    /\ UNCHANGED <<scanVars, patVars, replaceVars, matchVars, handles, efiles, ret>>

\* main on the return of checkEnvVarsInFiles: a warning or a fatal exit on an
\* error, then on to the set-up of the handlers.
MainAfterCheck ==
    /\ pc = "returned"
    /\ IF scanResult.kind # "nil"
       THEN IF allowMissingEnv
            THEN /\ warned' = TRUE
                 /\ pc' = "setup"
                 /\ UNCHANGED exitCode
            ELSE /\ exitCode' = 1
                 /\ pc' = "fatal: missing environment variables"
                 /\ UNCHANGED warned
       ELSE /\ pc' = "setup"
            /\ UNCHANGED <<warned, exitCode>>
    /\ UNCHANGED <<checkCalls, allowMissingEnv, listened, env, disk>>
    /\ UNCHANGED <<scanVars, patVars, replaceVars, matchVars, handles, efiles, ret>>

\* main from the set-up of the handlers to http.ListenAndServe, which starts
\* listening or fails (ok says which).
ListenAndServe(ok) ==
    /\ pc = "setup"
    /\ IF ok
       THEN /\ listened' = TRUE
            /\ pc' = "listening"
            /\ UNCHANGED exitCode
       ELSE /\ exitCode' = 1
            /\ pc' = "fatal: server startup failed"
            /\ UNCHANGED listened
    /\ UNCHANGED <<checkCalls, allowMissingEnv, warned, env, disk>>
    /\ UNCHANGED <<scanVars, patVars, replaceVars, matchVars, handles, efiles, ret>>

Init ==
    /\ pc = "main"
    /\ env \in ScanEnvSet
    /\ disk \in TreeSet
    /\ root \in RootSet
    /\ includeDirs \in IncludeSet
    /\ excludeDirs \in ExcludeSet
    /\ allowMissingEnv \in BOOLEAN
    /\ todo = <<>>
    /\ walkErr = "nil"
    /\ missing = {}
    /\ readFiles = {}
    /\ visited = {}
    /\ scanResult = NoError
    /\ checkCalls = 0
    /\ warned = FALSE
    /\ exitCode = 0
    /\ listened = FALSE
    /\ handles = <<>>
    /\ efiles = <<>>
    /\ ret = NoRet
    /\ IdlePatterns
    /\ IdleMatch
    /\ IdleReplace

Next ==
    \/ CheckEnvVarsInFiles
    \/ WalkStep
    \/ WalkDone
    \/ MainAfterCheck
    \/ \E ok \in BOOLEAN : ListenAndServe(ok)

Spec == Init /\ [][Next]_vars

----------------------------------------------------------------------------
(* The token grammar, stated on its own: what the claims call a well-formed *)
(* token.                                                                   *)

ValidName(n) ==
    /\ Len(n) >= 1
    /\ n[1] \in NameStart
    /\ \A k \in 1..Len(n) : n[k] \in NameChar

\* t is a token whose name ends at index k.
TokenShape(t, k) ==
    /\ Len(t) >= 4
    /\ t[1] = "$" /\ t[2] = "{" /\ t[Len(t)] = "}"
    /\ k \in 3..(Len(t) - 1)
    /\ ValidName(SubSeq(t, 3, k))
    /\ \/ k = Len(t) - 1
       \/ /\ k + 2 <= Len(t) - 1
          /\ t[k + 1] = ":" /\ t[k + 2] = "="
          /\ \A m \in (k + 3)..(Len(t) - 1) : t[m] # "}"

IsToken(t) == \E k \in 3..(Len(t) - 1) : TokenShape(t, k)

TokNameEnd(t) == CHOOSE k \in 3..(Len(t) - 1) : TokenShape(t, k)

TokName(t) == SubSeq(t, 3, TokNameEnd(t))

TokHasSep(t) == TokNameEnd(t) # Len(t) - 1

TokDefault(t) == SubSeq(t, TokNameEnd(t) + 3, Len(t) - 1)

\* The places <<i, j>> where s holds a token.
Occurrences(s) ==
    {o \in {i \in 1..Len(s) : s[i] = "$"} \X {j \in 1..Len(s) : s[j] = "}"} :
        o[1] <= o[2] /\ IsToken(SubSeq(s, o[1], o[2]))}

\* The tokens of s: the occurrences that do not start inside another one.
Tokens(s) ==
    {o \in Occurrences(s) :
        ~ \E p \in Occurrences(s) : p[1] < o[1] /\ o[1] <= p[2]}

Before(s, o) == SubSeq(s, 1, o[1] - 1)

After(s, o) == SubSeq(s, o[2] + 1, Len(s))

\* The output is the input with token o replaced by r and the text on either
\* side rewritten on its own.
ReplacedBy(o, r) ==
    output = replaceEnvVars(env, Before(content, o)) \o r
                 \o replaceEnvVars(env, After(content, o))

----------------------------------------------------------------------------
(* Claims about replaceEnvVars, under SpecReplace *)

\* C1: every token whose name is in the environment is replaced by the
\* variable's value, whatever default it carries and also when the value is
\* the empty string.
C1_SetVariableWins ==
    pc = "done" =>
        \A o \in Tokens(content) :
            LET t == SubSeq(content, o[1], o[2])
            IN  TokName(t) \in DOMAIN env => ReplacedBy(o, env[TokName(t)])

\* C1 witness: ${A:= a:= é} with A set to the empty string yields "".
C1_Witness ==
    /\ pc = "done"
    /\ content = <<"$", "{", "A", ":", "=", " ", "a", ":", "=", " ", "xC3", "xA9", "}">>
    /\ <<"A">> \in DOMAIN env /\ env[<<"A">>] = <<>>
    /\ output = <<>>

\* C2: every token with ":=" whose name is not in the environment is replaced
\* by its default text, byte for byte, and by the empty string when the
\* default is empty.
C2_DefaultVerbatim ==
    pc = "done" =>
        \A o \in Tokens(content) :
            LET t == SubSeq(content, o[1], o[2])
            IN  (TokName(t) \notin DOMAIN env /\ TokHasSep(t))
                    => ReplacedBy(o, TokDefault(t))

\* C2 witness: with A unset, ${A:= a:= é} yields " a:= é" and ${A:=} yields "".
C2_Witness ==
    /\ pc = "done"
    /\ <<"A">> \notin DOMAIN env
    /\ \/ /\ content = <<"$", "{", "A", ":", "=", " ", "a", ":", "=", " ", "xC3", "xA9", "}">>
          /\ output = <<" ", "a", ":", "=", " ", "xC3", "xA9">>
       \/ /\ content = <<"$", "{", "A", ":", "=", "}">>
          /\ output = <<>>

\* C3: a token without ":=" whose name is not in the environment stays in the
\* output as written, and the tokens around it are resolved on their own.
C3_UnsetStaysLiteral ==
    pc = "done" =>
        \A o \in Tokens(content) :
            LET t == SubSeq(content, o[1], o[2])
            IN  (TokName(t) \notin DOMAIN env /\ ~TokHasSep(t))
                    => ReplacedBy(o, t)

\* C3 witness: ${A}${B} with A = "v" and B unset yields v${B}.
C3_Witness ==
    /\ pc = "done"
    /\ content = <<"$", "{", "A", "}", "$", "{", "B", "}">>
    /\ <<"B">> \notin DOMAIN env
    /\ output = <<"v", "$", "{", "B", "}">>

\* C4: an input that holds no token is returned unchanged.
C4_NoTokenIdentity ==
    (pc = "done" /\ Occurrences(content) = {}) => output = content

\* C4 witness: ${A:} holds "${" and "}" and no token, and is returned as is.
C4_Witness ==
    /\ pc = "done"
    /\ content = <<"$", "{", "A", ":", "}">>
    /\ Occurrences(content) = {}
    /\ output = content

\* C5: the default text ends at the first "}" and tokens are not nested: with
\* FOO unset, ${FOO:=bar}baz} yields barbaz} and ${FOO:=bar${BAZ}} yields
\* bar${BAZ}, BAZ is not looked up, and in general the names looked up are
\* the names of the tokens that do not start inside another token.
C5_FirstBraceEndsDefault ==
    (pc = "done" /\ Str_FOO \notin DOMAIN env) =>
        /\ content = <<"$", "{", "F", "O", "O", ":", "=", "b", "a", "r", "}", "b", "a", "z", "}">>
               => output = <<"b", "a", "r", "b", "a", "z", "}">>
        /\ content = <<"$", "{", "F", "O", "O", ":", "=", "b", "a", "r", "$", "{", "B", "A", "Z", "}", "}">>
               => /\ output = <<"b", "a", "r", "$", "{", "B", "A", "Z", "}">>
                  /\ Str_BAZ \notin lookups
        /\ lookups = {TokName(SubSeq(content, o[1], o[2])) : o \in Tokens(content)}

\* C5 witness: ${FOO:=bar${BAZ}} rewritten while BAZ is set.
C5_Witness ==
    /\ pc = "done"
    /\ content = <<"$", "{", "F", "O", "O", ":", "=", "b", "a", "r", "$", "{", "B", "A", "Z", "}", "}">>
    /\ Str_BAZ \in DOMAIN env
    /\ output = <<"b", "a", "r", "$", "{", "B", "A", "Z", "}">>

----------------------------------------------------------------------------
(* Claims about EnvFileSystem and EnvFile, under SpecFS *)

\* C6: for every regular file Open has returned, Stat().Size() is the length
\* of the content as rewritten, which is the number of bytes Read delivers up
\* to EOF, whatever the length on disk.
C6_SizeIsRewrittenLength ==
    \A f \in 1..Len(efiles) :
        efiles[f].kind = "env" =>
            LET rewritten == replaceEnvVars(env, disk[efiles[f].name].data)
            IN  /\ efiles[f].replacedSize = Len(rewritten)
                /\ efiles[f].data = rewritten
                /\ efiles[f].off <= efiles[f].replacedSize
                /\ (ret.op = "Read" /\ ret.f = f /\ ret.err = "EOF")
                       => efiles[f].off = efiles[f].replacedSize
                /\ (ret.op = "Stat" /\ ret.f = f)
                       => (ret.err = "nil" /\ ret.size = Len(rewritten))

\* C6 witness: ${A:=dd}, 8 bytes on disk, served with A unset and read to its
\* end: Stat reports 2.
C6_Witness ==
    /\ ret.op = "Stat"
    /\ ret.f \in 1..Len(efiles)
    /\ efiles[ret.f].kind = "env"
    /\ Len(disk[efiles[ret.f].name].data) = 8
    /\ efiles[ret.f].off = 2
    /\ ret.size = 2

\* C10: Close is idempotent: the underlying handle of an EnvFile is closed at
\* most once, and a Close after the first returns no error.
C10_CloseIdempotent ==
    \A f \in 1..Len(efiles) :
        efiles[f].kind = "env" =>
            /\ handles[efiles[f].file].closes <= 1
            /\ (ret.op = "Close" /\ ret.f = f /\ efiles[f].closeCalls >= 2)
                   => ret.err = "nil"


----------------------------------------------------------------------------
(* Claims about the matcher, under SpecMatch *)

\* C7: exclude wins over include: when an exclude pattern matches the path
\* (as an exclude query) shouldInclude answers false, whatever the include
\* patterns are and whether the path is a file or a directory.
C7_ExcludeWins ==
    (pc = "done" /\ \E k \in 1..Len(excPats) :
                        matchPattern(qPath, excPats[k], FALSE))
        => selected = FALSE

\* C7 witness: the file docs/v1/index.html with include docs and exclude docs
\* is rejected.
C7_Witness ==
    /\ pc = "done"
    /\ qPath = <<"d", "o", "c", "s", "/", "v", "1", "/", "i", "n", "d", "e", "x", ".", "h", "t", "m", "l">>
    /\ qIsFile
    /\ incPats = <<<<"d", "o", "c", "s">>>>
    /\ excPats = <<<<"d", "o", "c", "s">>>>
    /\ matchPattern(qPath, incPats[1], TRUE)
    /\ selected = FALSE

----------------------------------------------------------------------------
(* The startup scan, stated on the tree rather than on the walk *)

\* The directories strictly above p, the root left out.
Ancestors(p) ==
    {q \in DOMAIN disk : q # <<".">> /\ HasPrefix(p, q \o <<"/">>)}

\* The scan goes down into directory q when it is not excluded and, unless a
\* file pattern is among the include patterns, matches the include patterns.
DirKept(q) ==
    shouldInclude(q, IF hasFilePatterns(incPats) THEN <<>> ELSE incPats, excPats, FALSE)

\* The walk arrives at p: every directory above it can be listed and is kept.
WalkReaches(p) ==
    /\ disk[<<".">>].lstatOk
    /\ disk[<<".">>].readable
    /\ \A q \in Ancestors(p) : disk[q].lstatOk /\ disk[q].readable /\ DirKept(q)
    /\ disk[p].lstatOk

\* The files the scan selects and can read.
ScannedFiles ==
    {p \in DOMAIN disk :
        /\ ~disk[p].isDir
        /\ WalkReaches(p)
        /\ shouldInclude(p, incPats, excPats, TRUE)
        /\ disk[p].readable}

\* The names of the tokens without ":=" whose variable is not in the
\* environment, over the scanned files.
ExpectedMissing ==
    UNION {{TokName(SubSeq(disk[p].data, o[1], o[2])) : o \in
               {t \in Tokens(disk[p].data) :
                   /\ ~TokHasSep(SubSeq(disk[p].data, t[1], t[2]))
                   /\ TokName(SubSeq(disk[p].data, t[1], t[2])) \notin DOMAIN env}}
           : p \in ScannedFiles}

CheckReturned == checkCalls = 1 /\ pc # "walk"

\* C8: the scan of a non-empty root reads every selected file and returns an
\* error that names, once each and in any order, exactly the variables that
\* occur in a token without ":=" and are not in the environment; with no such
\* variable it returns nil.
C8_ReportsExactlyUnsetWithoutDefault ==
    (CheckReturned /\ root # <<>>) =>
        /\ readFiles \cap ScannedFiles = ScannedFiles
        /\ IF ExpectedMissing = {}
           THEN scanResult = NoError
           ELSE /\ scanResult.kind = "missing environment variables"
                /\ {scanResult.keys[i] : i \in 1..Len(scanResult.keys)} = ExpectedMissing
                /\ Len(scanResult.keys) = Cardinality(ExpectedMissing)

\* The scan has returned on the tree where A is unset and occurs bare in two
\* files and with a default in one, B has an empty default, F stands inside
\* the default of E and C occurs bare: A and C are reported.
C8_Witness ==
    /\ CheckReturned
    /\ root # <<>>
    /\ disk = TreeDefaults
    /\ env = EnvEmpty
    /\ Cardinality(ScannedFiles) >= 4
    /\ scanResult.kind = "missing environment variables"
    /\ scanResult.keys = <<<<"C">>, <<"A">>>>

\* C9: main runs the check once and before the server listens; an error
\* without the allow-missing-env flag ends the process with status 1 and the
\* server never listens; with the flag the error is logged as a warning and
\* start-up goes on.
C9_CheckGatesStartup ==
    /\ checkCalls <= 1
    /\ pc \in {"setup", "listening", "fatal: server startup failed"} => CheckReturned
    /\ listened => pc = "listening"
    /\ (CheckReturned /\ scanResult.kind # "nil" /\ ~allowMissingEnv /\ pc # "returned") =>
           /\ pc = "fatal: missing environment variables"
           /\ exitCode = 1
           /\ ~listened
    /\ (CheckReturned /\ scanResult.kind # "nil" /\ allowMissingEnv /\ pc # "returned") =>
           /\ warned
           /\ pc \in {"setup", "listening", "fatal: server startup failed"}
    /\ (CheckReturned /\ scanResult.kind = "nil" /\ pc # "returned") =>
           /\ ~warned
           /\ pc \in {"setup", "listening", "fatal: server startup failed"}
    /\ pc = "fatal: missing environment variables" =>
           scanResult.kind # "nil" /\ ~allowMissingEnv

\* The server listens although the check found missing variables: the flag
\* was given and the warning logged.
C9_Witness ==
    /\ pc = "listening"
    /\ listened
    /\ allowMissingEnv
    /\ warned
    /\ scanResult.kind = "missing environment variables"
    /\ checkCalls = 1


----------------------------------------------------------------------------
(* Further claims about EnvFileSystem and EnvFile, under SpecFS *)

ClosedErrors == {"file is closed", "file already closed"}

\* C11: after Close has been called on an EnvFile, a Read, Seek, Stat or
\* Readdir of it fails with a closed error and does not reach the released
\* underlying handle.
C11_ClosedFileRejectsAll ==
    \A f \in 1..Len(efiles) :
        (/\ efiles[f].kind = "env"
         /\ efiles[f].closeCalls >= 1
         /\ ret.f = f
         /\ ret.op \in {"Read", "Seek", "Stat", "Readdir"})
            => (ret.err \in ClosedErrors /\ ~ret.late)


\* C12: when the underlying Open, the Stat or the read fails, Open returns a
\* nil file and an error that names the requested file and wraps the
\* underlying error; every file object it ever returns holds the whole
\* content, wholly rewritten.
C12_OpenFailsWhole ==
    /\ (ret.op = "Open" /\ ret.err # "nil") =>
           /\ ret.f = Nil
           /\ ret.name = ret.arg
           /\ ret.cause # "nil"
    /\ (ret.op = "Open" /\ ret.err = "nil") =>
           /\ ret.f = Len(efiles)
           /\ efiles[ret.f].name = ret.arg
    /\ \A f \in 1..Len(efiles) :
           efiles[f].kind = "env" =>
               efiles[f].data = replaceEnvVars(env, disk[efiles[f].name].data)

\* The read of index.html, which holds a token, failed: Open returned no
\* file and the error for it, after an earlier Open had returned a file.
C12_Witness ==
    /\ ret.op = "Open"
    /\ ret.err = "failed to read file"
    /\ ret.cause = "read error"
    /\ ret.f = Nil
    /\ ret.name = <<"i", "n", "d", "e", "x", ".", "h", "t", "m", "l">>
    /\ ReadSoFar(disk[ret.name].data) # disk[ret.name].data
    /\ Len(efiles) = 1


\* The entries of the served tree directly inside directory name.
Inside(name) == {q \in DOMAIN disk : q # name /\ HasPrefix(q, name \o <<"/">>)
                                     /\ ~ContainsByte(Drop(q, Len(name) + 1), "/")}

\* C13: for a directory Open returns the underlying handle itself: nothing is
\* read and nothing rewritten, its Stat reports a directory, and its Readdir
\* lists the underlying entries under their own names with their sizes on
\* disk.
C13_DirectoryUnmodified ==
    /\ (ret.op = "Open" /\ ret.arg \in DOMAIN disk /\ disk[ret.arg].isDir) =>
           IF ret.err = "nil"
           THEN efiles[ret.f].kind = "raw" /\ efiles[ret.f].data = <<>>
           ELSE ret.err \in {"failed to open file", "failed to stat file"}
    /\ \A f \in 1..Len(efiles) :
           /\ efiles[f].kind = "raw" <=> disk[efiles[f].name].isDir
           /\ (efiles[f].kind = "raw" /\ ret.f = f /\ ret.err = "nil") =>
                  /\ ret.op = "Stat" => ret.isDir
                  /\ ret.op = "Readdir" =>
                         /\ \A e \in ret.entries :
                                \E q \in Inside(efiles[f].name) :
                                    /\ e.name = Base(q)
                                    /\ e.isDir = disk[q].isDir
                                    /\ ~disk[q].isDir => e.size = Len(disk[q].data)
                         /\ ret.entries \subseteq handles[efiles[f].file].listed
                         /\ ret.n <= 0 => Cardinality(handles[efiles[f].file].listed)
                                              = Cardinality(Inside(efiles[f].name))
                         /\ ret.n > 0 => Cardinality(ret.entries) = 1

\* Readdir of the directory docs lists a.html with its 8 bytes on disk, which
\* would be 2 as rewritten, beside the directory v1.
C13_Witness ==
    /\ ret.op = "Readdir"
    /\ ret.err = "nil"
    /\ ret.f \in 1..Len(efiles)
    /\ efiles[ret.f].kind = "raw"
    /\ env = EnvEmpty
    /\ [name |-> <<"a", ".", "h", "t", "m", "l">>, size |-> 8, isDir |-> FALSE] \in ret.entries
    /\ Len(replaceEnvVars(env, disk[<<"d", "o", "c", "s", "/", "a", ".", "h", "t", "m", "l">>].data)) = 2
    /\ Cardinality(ret.entries) = 2


----------------------------------------------------------------------------
(* Further claims about the startup scan, under Spec *)

\* C14: with an empty root the scan returns "root path cannot be empty" at
\* once: no pattern has been parsed, no entry looked at, no file read and no
\* variable looked up, whatever the include and exclude strings are.
C14_EmptyRootFailsFirst ==
    (CheckReturned /\ root = <<>>) =>
        /\ scanResult = [kind |-> "root path cannot be empty", keys |-> <<>>]
        /\ incPats = <<>>
        /\ excPats = <<>>
        /\ visited = {}
        /\ readFiles = {}
        /\ lookups = {}
        /\ missing = {}

\* The scan of an empty root has returned, called with include and exclude
\* strings on a tree full of unset variables.
C14_Witness ==
    /\ CheckReturned
    /\ root = <<>>
    /\ includeDirs # <<>>
    /\ excludeDirs # <<>>
    /\ disk = TreeNames
    /\ env = EnvEmpty
    /\ scanResult.kind = "root path cannot be empty"


\* C15: when the root cannot be looked at or listed, the scan returns the
\* walk error, which is not the missing-variables error, and not success.
C15_WalkFailureSurfaces ==
    (/\ CheckReturned
     /\ root # <<>>
     /\ ~disk[<<".">>].lstatOk \/ (disk[<<".">>].isDir /\ ~disk[<<".">>].readable))
        => scanResult.kind = "error walking directory tree"


\* Directory q is selected by an include pattern.
IncludeSelects(q) == \E k \in 1..Len(incPats) : matchPattern(q, incPats[k], TRUE)

\* Exclude pattern k rejects path q.
Excluded(q) == \E k \in 1..Len(excPats) : matchPattern(q, excPats[k], FALSE)

\* C16: in a scan with include patterns, every readable file that lies, at
\* any depth, inside a directory that an include pattern selects is read,
\* when neither the file nor a directory above it is excluded or unreadable
\* and the file itself passes the include patterns.
C16_SelectedDirsScanned ==
    (CheckReturned /\ root # <<>> /\ incPats # <<>>) =>
        \A p \in DOMAIN disk :
            (/\ ~disk[p].isDir
             /\ disk[p].lstatOk /\ disk[p].readable
             /\ disk[<<".">>].lstatOk /\ disk[<<".">>].readable
             /\ \A q \in Ancestors(p) : disk[q].lstatOk /\ disk[q].readable /\ ~Excluded(q)
             /\ \E q \in Ancestors(p) : IncludeSelects(q)
             /\ shouldInclude(p, incPats, excPats, TRUE))
                => p \in readFiles


\* The files with no excluded directory above them.
OutsideExcluded ==
    {p \in DOMAIN disk : ~disk[p].isDir /\ \A q \in Ancestors(p) : ~Excluded(q)}

\* The names of the tokens of the files in set.
TokenNames(files) ==
    UNION {{TokName(SubSeq(disk[p].data, o[1], o[2])) : o \in Tokens(disk[p].data)}
           : p \in files}

\* C17: nothing in or beneath a directory, other than the root, whose path an
\* exclude pattern matches is looked at or read, whatever the include
\* patterns are, and every name reported comes from a file outside such
\* directories.
C17_ExcludedSubtreeSkipped ==
    /\ \A p \in DOMAIN disk :
           (\E q \in Ancestors(p) : Excluded(q)) => (p \notin visited /\ p \notin readFiles)
    /\ missing \subseteq TokenNames(OutsideExcluded)
    /\ \A i \in 1..Len(scanResult.keys) : scanResult.keys[i] \in TokenNames(OutsideExcluded)

\* The scan has returned with docs/v1 and src excluded: it looked at docs/v1
\* and at src and at nothing beneath them, and read docs/a.html.
C17_Witness ==
    /\ CheckReturned
    /\ disk = TreeNames
    /\ env = EnvEmpty
    /\ excPats = <<<<"d", "o", "c", "s", "/", "v", "1">>, <<"s", "r", "c">>>>
    /\ incPats = <<>>
    /\ {<<"d", "o", "c", "s", "/", "v", "1">>, <<"s", "r", "c">>} \subseteq visited
    /\ <<"d", "o", "c", "s", "/", "v", "1", "/", "b", ".", "h", "t", "m", "l">> \notin visited
    /\ <<"s", "r", "c", "/", "a", "p", "p", ".", "j", "s">> \notin visited
    /\ <<"d", "o", "c", "s", "/", "a", ".", "h", "t", "m", "l">> \in readFiles
    /\ scanResult.kind = "missing environment variables"


----------------------------------------------------------------------------
(* Claims about matchPattern, under SpecPattern *)

\* The test of matchPattern for a glob pattern.
IsGlob(p) == ContainsAny(p, {"*", "?", "[", "]"})

\* The components of a path, as strings.Split(path, "/") yields them.
Components(path) == {Split(path, "/")[k] : k \in 1..Len(Split(path, "/"))}

\* A pattern as parsePatterns hands it over: no blanks around it.
Trimmed(p) == TrimSpace(p) = p

\* C18: for a literal pattern P and an include query matchPattern answers
\* true exactly when the path is P, or starts with P and "/", or P starts with
\* the path and "/", or a component of the path is P. So docs matches docs,
\* docs/api and src/docs but not documentation, assets does not match
\* assets-old, upper and lower case differ, and an empty path or an empty
\* pattern matches only when both are empty.
C18_LiteralIncludeMatch ==
    (pc = "done" /\ qIsInclude /\ ~IsGlob(qPattern) /\ Trimmed(qPattern)) =>
        /\ matched = (\/ qPath = qPattern
                      \/ HasPrefix(qPath, qPattern \o <<"/">>)
                      \/ HasPrefix(qPattern, qPath \o <<"/">>)
                      \/ qPattern \in Components(qPath))
        /\ (qPattern = <<"d", "o", "c", "s">> /\ qPath \in {<<"d", "o", "c", "s">>, <<"d", "o", "c", "s", "/", "a", "p", "i">>, <<"s", "r", "c", "/", "d", "o", "c", "s">>}) => matched
        /\ (qPattern = <<"d", "o", "c", "s">> /\ qPath = <<"d", "o", "c", "u", "m", "e", "n", "t", "a", "t", "i", "o", "n">>) => ~matched
        /\ (qPattern = <<"a", "s", "s", "e", "t", "s">> /\ qPath = <<"a", "s", "s", "e", "t", "s", "-", "o", "l", "d">>) => ~matched
        /\ (qPattern = <<"t", "e", "s", "t">> /\ qPath = <<"T", "e", "s", "t">>) => ~matched
        /\ (qPattern = <<"T", "e", "s", "t">> /\ qPath = <<"t", "e", "s", "t">>) => ~matched
        /\ ((qPath = <<>> \/ qPattern = <<>>) /\ matched) => (qPath = <<>> /\ qPattern = <<>>)

\* C18 witness: the include query for src/docs with the pattern docs has
\* answered true, by the component docs alone.
C18_Witness ==
    /\ pc = "done"
    /\ qIsInclude
    /\ qPattern = <<"d", "o", "c", "s">>
    /\ qPath = <<"s", "r", "c", "/", "d", "o", "c", "s">>
    /\ ~HasPrefix(qPath, qPattern \o <<"/">>)
    /\ matched


\* The pattern glob-matches the whole path or one of its components
\* (filepath.Match, where "*" and "?" stop at "/").
GlobMatchesPart(pattern, path) ==
    \/ Match(pattern, path)
    \/ \E c \in Components(path) : Match(pattern, c)

\* C19 as stated: for a glob pattern with no "/" matchPattern answers true
\* exactly when the pattern glob-matches the whole path or one component of
\* the path.
C19_GlobWithoutSlash ==
    (pc = "done" /\ IsGlob(qPattern) /\ ~ContainsByte(qPattern, "/") /\ Trimmed(qPattern)) =>
        matched = GlobMatchesPart(qPattern, qPath)

\* C19 as amended: for a glob pattern with no "/" matchPattern answers true
\* exactly when the path equals the pattern text, or the pattern glob-matches
\* the whole path or one component of the path. So test-* matches test-unit
\* and src/test-unit but not testing, test? matches test1 but neither test
\* nor test12, and test[123] matches src/test2 but not test4.
C19_GlobWithoutSlashOrEqual ==
    (pc = "done" /\ IsGlob(qPattern) /\ ~ContainsByte(qPattern, "/") /\ Trimmed(qPattern)) =>
        /\ matched = (qPath = qPattern \/ GlobMatchesPart(qPattern, qPath))
        /\ (qPattern = <<"t", "e", "s", "t", "-", "*">> /\ qPath \in {<<"t", "e", "s", "t", "-", "u", "n", "i", "t">>, <<"s", "r", "c", "/", "t", "e", "s", "t", "-", "u", "n", "i", "t">>}) => matched
        /\ (qPattern = <<"t", "e", "s", "t", "-", "*">> /\ qPath = <<"t", "e", "s", "t", "i", "n", "g">>) => ~matched
        /\ (qPattern = <<"t", "e", "s", "t", "?">> /\ qPath = <<"t", "e", "s", "t", "1">>) => matched
        /\ (qPattern = <<"t", "e", "s", "t", "?">> /\ qPath \in {<<"t", "e", "s", "t">>, <<"t", "e", "s", "t", "1", "2">>}) => ~matched
        /\ (qPattern = <<"t", "e", "s", "t", "[", "1", "2", "3", "]">> /\ qPath = <<"s", "r", "c", "/", "t", "e", "s", "t", "2">>) => matched
        /\ (qPattern = <<"t", "e", "s", "t", "[", "1", "2", "3", "]">> /\ qPath = <<"t", "e", "s", "t", "4">>) => ~matched

\* C19 witness: test-* has matched src/test-unit by its component test-unit,
\* not as a whole path.
C19_Witness ==
    /\ pc = "done"
    /\ qPattern = <<"t", "e", "s", "t", "-", "*">>
    /\ qPath = <<"s", "r", "c", "/", "t", "e", "s", "t", "-", "u", "n", "i", "t">>
    /\ ~Match(qPattern, qPath)
    /\ matched


\* The path is a directory strictly above the pattern's path.
StrictAncestor(path, pattern) == HasPrefix(pattern, path \o <<"/">>)

\* C20: the allowance for parents of a pattern is for include queries only:
\* an exclude query never matches a path strictly above the pattern, literal
\* or glob. So tmp/cache rejects neither tmp nor tmp/other, and docs/v1-*
\* rejects none of docs, docs/v1 and docs/api, while it does reject
\* docs/v1-beta and what lies in it.
C20_ExcludeSparesParents ==
    (pc = "done" /\ ~qIsInclude /\ Trimmed(qPattern)) =>
        /\ StrictAncestor(qPath, qPattern) => ~matched
        /\ (qPattern = <<"t", "m", "p", "/", "c", "a", "c", "h", "e">> /\ qPath \in {<<"t", "m", "p">>, <<"t", "m", "p", "/", "o", "t", "h", "e", "r">>}) => ~matched
        /\ (qPattern = <<"d", "o", "c", "s", "/", "v", "1", "-", "*">> /\ qPath \in {<<"d", "o", "c", "s">>, <<"d", "o", "c", "s", "/", "v", "1">>, <<"d", "o", "c", "s", "/", "a", "p", "i">>}) => ~matched
        /\ (qPattern = <<"d", "o", "c", "s", "/", "v", "1", "-", "*">> /\ qPath \in {<<"d", "o", "c", "s", "/", "v", "1", "-", "b", "e", "t", "a">>, <<"d", "o", "c", "s", "/", "v", "1", "-", "b", "e", "t", "a", "/", "x", ".", "h", "t", "m", "l">>}) => matched

\* C20 witness: the exclude query for docs with the pattern docs/v1-* has
\* answered false, where the include query answers true.
C20_Witness ==
    /\ pc = "done"
    /\ ~qIsInclude
    /\ qPattern = <<"d", "o", "c", "s", "/", "v", "1", "-", "*">>
    /\ qPath = <<"d", "o", "c", "s">>
    /\ matchPattern(qPath, qPattern, TRUE)
    /\ ~matched


----------------------------------------------------------------------------
(* Further claims about the selection of files by the scan, under Spec *)

\* C21: with include patterns, a file is read only when its own path or its
\* directory matches an include pattern without the allowance for the
\* directories on the way to a pattern (a file pattern: when the pattern
\* matches the file).
C21_FilesNeedRealMatch ==
    \A p \in readFiles :
        incPats # <<>> =>
            \E k \in 1..Len(incPats) :
                IF isFilePattern(incPats[k])
                THEN matchesFilePattern(p, incPats[k])
                ELSE \/ matchPattern(p, incPats[k], FALSE)
                     \/ matchPattern(Dir(p), incPats[k], FALSE)


----------------------------------------------------------------------------
(* Further claims about shouldInclude, under SpecMatch *)

\* C22 as stated: for a regular file a pattern that is not a file pattern is
\* asked about the file's directory: when no include pattern matches the
\* directory the file is not selected, and when no exclude pattern matches
\* the directory the file is not rejected.
C22_FileByDirectory ==
    (pc = "done" /\ qIsFile
        /\ (\A k \in 1..Len(incPats) : ~isFilePattern(incPats[k]))
        /\ (\A k \in 1..Len(excPats) : ~isFilePattern(excPats[k]))) =>
        /\ (incPats # <<>> /\ \A k \in 1..Len(incPats) :
                                  ~matchPattern(Dir(qPath), incPats[k], TRUE)) => ~selected
        /\ (incPats = <<>> /\ \A k \in 1..Len(excPats) :
                                  ~matchPattern(Dir(qPath), excPats[k], FALSE)) => selected

\* C22 as amended: for a regular file a pattern that is not a file pattern
\* is asked about the file's own relative path, its base name included: a
\* pattern without "/" that equals the base name (a literal pattern) or
\* glob-matches it (a glob pattern) rejects the file as an exclude pattern
\* and, when no exclude pattern matches the file, selects it as an include
\* pattern, whatever the file's directory is.
C22_FileByOwnPath ==
    (pc = "done" /\ qIsFile) =>
        LET NameMatches(pat) ==
                /\ ~ContainsByte(pat, "/")
                /\ Trimmed(pat)
                /\ IF IsGlob(pat) THEN Match(pat, Base(qPath)) ELSE Base(qPath) = pat
        IN  /\ (\E k \in 1..Len(excPats) : NameMatches(excPats[k])) => ~selected
            /\ (/\ (\E k \in 1..Len(incPats) : NameMatches(incPats[k]))
                /\ (\A k \in 1..Len(excPats) : ~matchPattern(qPath, excPats[k], FALSE)))
                   => selected

\* C22 witness: the file src/docs is selected by the include pattern docs,
\* which does not match its directory src.
C22_Witness ==
    /\ pc = "done"
    /\ qIsFile
    /\ qPath = <<"s", "r", "c", "/", "d", "o", "c", "s">>
    /\ incPats = <<<<"d", "o", "c", "s">>>>
    /\ excPats = <<>>
    /\ ~matchPattern(Dir(qPath), incPats[1], TRUE)
    /\ selected


----------------------------------------------------------------------------
(* Further claims about the scan with file patterns, under Spec *)

\* C23: when a file pattern is among the include patterns, directories are
\* pruned by the exclude patterns only, and a file is handed to os.ReadFile
\* exactly when the walk so pruned reaches it, no exclude pattern matches it
\* and an include pattern selects it: a pattern "*.ext" without "/" and with a recognized
\* extension when it glob-matches the file's base name, a pattern with "/",
\* "*" and "." when it glob-matches the whole relative path.
C23_FilePatternDispatch ==
    (CheckReturned /\ root # <<>> /\ hasFilePatterns(incPats)) =>
        LET Selects(pat, p) ==
                IF /\ HasPrefix(pat, <<"*", ".">>) /\ ~ContainsByte(pat, "/")
                   /\ Drop(pat, 2) \in {<<"h", "t", "m", "l">>, <<"j", "s">>, <<"c", "s", "s">>, <<"j", "s", "o", "n">>, <<"t", "x", "t">>, <<"m", "d">>,
                                        <<"x", "m", "l">>, <<"y", "m", "l">>, <<"y", "a", "m", "l">>, <<"l", "o", "g">>, <<"b", "a", "k">>}
                THEN Match(pat, Base(p))
                ELSE IF ContainsByte(pat, "/") /\ ContainsByte(pat, "*") /\ ContainsByte(pat, ".")
                THEN Match(pat, p)
                ELSE matchPattern(p, pat, TRUE)
            Reached(p) ==
                /\ disk[<<".">>].lstatOk /\ disk[<<".">>].readable
                /\ \A q \in Ancestors(p) : disk[q].lstatOk /\ disk[q].readable /\ ~Excluded(q)
                /\ disk[p].lstatOk
        IN  \A p \in DOMAIN disk :
                ~disk[p].isDir =>
                    (p \in readFiles <=>
                        /\ Reached(p)
                        /\ ~Excluded(p)
                        /\ \E k \in 1..Len(incPats) : Selects(incPats[k], p))

\* C23 witness: the scan with include *.html has returned: it read
\* index.html, docs/a.html and docs/v1/b.html and left src/app.js alone,
\* though the pattern matches none of the directories docs and docs/v1.
C23_Witness ==
    /\ CheckReturned
    /\ disk = TreeNames
    /\ incPats = <<<<"*", ".", "h", "t", "m", "l">>>>
    /\ excPats = <<>>
    /\ ~matchPattern(<<"d", "o", "c", "s">>, incPats[1], TRUE)
    /\ {<<"i", "n", "d", "e", "x", ".", "h", "t", "m", "l">>, <<"d", "o", "c", "s", "/", "a", ".", "h", "t", "m", "l">>, <<"d", "o", "c", "s", "/", "v", "1", "/", "b", ".", "h", "t", "m", "l">>} \subseteq readFiles
    /\ <<"s", "r", "c", "/", "a", "p", "p", ".", "j", "s">> \notin readFiles


\* C24: an entry that cannot be statted, listed or read does not end the
\* walk and is not the scan's result: the walk stops with no error, visits
\* every entry below the directories it keeps and can list, the names found
\* come from the files it could read, and the result names exactly the
\* missing variables of the selected files that can be read.
C24_EntryErrorsDoNotAbort ==
    /\ walkErr = "nil"
    /\ scanResult.kind # "error walking directory tree"
    /\ missing \subseteq TokenNames({p \in readFiles : disk[p].lstatOk /\ disk[p].readable})
    /\ (CheckReturned /\ root # <<>>) =>
           /\ \A p \in DOMAIN disk :
                  (/\ disk[<<".">>].lstatOk /\ disk[<<".">>].readable
                   /\ \A q \in Ancestors(p) :
                          disk[q].lstatOk /\ disk[q].readable /\ DirKept(q))
                      => p \in visited
           /\ {scanResult.keys[i] : i \in 1..Len(scanResult.keys)} = ExpectedMissing

\* C24 witness: in the tree where docs/a.html cannot be read, src/app.js
\* cannot be statted and node_modules cannot be listed, scanned with no
\* patterns and an empty environment, the scan has returned ROOT and DB, the
\* names of the two files read after docs/a.html failed.
C24_Witness ==
    /\ CheckReturned
    /\ disk = TreeUnreadable
    /\ env = EnvEmpty
    /\ incPats = <<>> /\ excPats = <<>>
    /\ {<<"d", "o", "c", "s", "/", "a", ".", "h", "t", "m", "l">>, <<"d", "o", "c", "s", "/", "v", "1", "/", "b", ".", "h", "t", "m", "l">>, <<"i", "n", "d", "e", "x", ".", "h", "t", "m", "l">>} \subseteq readFiles
    /\ {<<"s", "r", "c", "/", "a", "p", "p", ".", "j", "s">>, <<"n", "o", "d", "e", "_", "m", "o", "d", "u", "l", "e", "s">>} \subseteq visited
    /\ scanResult.kind = "missing environment variables"
    /\ missing = {<<"D", "B">>, <<"R", "O", "O", "T">>}


----------------------------------------------------------------------------
(* Claims about requests served side by side, under SpecServe *)

\* C25: the calls of Open are independent and keep nothing between them. In
\* every step, the file a successful Open of a regular file returns holds
\* replaceEnvVars of the content on disk under the environment of that step,
\* around a handle of its own; the content, size and handle of every file
\* returned before stay as they are, whatever changes in the environment or
\* on disk; and a call changes the position and the handle of the file it is
\* called on only.
C25_OpensIndependent ==
    [][/\ Len(efiles') >= Len(efiles)
       /\ \A f \in 1..Len(efiles) :
              /\ efiles'[f].data = efiles[f].data
              /\ efiles'[f].replacedSize = efiles[f].replacedSize
              /\ efiles'[f].file = efiles[f].file
              /\ (efiles'[f] # efiles[f] \/ handles'[efiles[f].file] # handles[efiles[f].file])
                     => (ret'.f = f /\ ret'.op \in {"Read", "Seek", "Stat", "Close", "Readdir"})
       /\ Len(efiles') > Len(efiles) =>
              LET new == efiles'[Len(efiles')]
              IN  /\ Len(efiles') = Len(efiles) + 1
                  /\ \A f \in 1..Len(efiles) : efiles[f].file # new.file
                  /\ handles'[new.file].open
                  /\ new.kind = "env" =>
                         /\ new.data = replaceEnvVars(env, disk[new.name].data)
                         /\ new.replacedSize = Len(new.data)
                         /\ new.off = 0
      ]_vars

\* C25 witness: index.html was opened twice with a change in between; the
\* two files differ in content, the first is closed, and the second has just
\* been read to its end.
C25_Witness ==
    /\ Len(efiles) = 2
    /\ efiles[1].kind = "env" /\ efiles[2].kind = "env"
    /\ efiles[1].name = efiles[2].name
    /\ efiles[1].data # efiles[2].data
    /\ efiles[2].data = replaceEnvVars(env, disk[efiles[2].name].data)
    /\ ~handles[efiles[1].file].open
    /\ handles[efiles[2].file].open
    /\ ret.op = "Read" /\ ret.f = 2
    /\ efiles[2].off = Len(efiles[2].data)
    /\ efiles[2].off > 0


----------------------------------------------------------------------------
(* Claims about listings, under SpecDir *)

\* C26: Readdir of an EnvFile, which wraps a regular file, returns no entry,
\* whatever the count, and returns an error while the file is open.
C26_ReaddirOnFileFails ==
    (ret.op = "Readdir" /\ ret.f \in 1..Len(efiles) /\ efiles[ret.f].kind = "env") =>
        /\ ret.entries = {}
        /\ ret.n \in ReadCounts
        /\ efiles[ret.f].closeCalls = 0 => ret.err # "nil"

\* C26 witness: Readdir(1) of the open EnvFile of index.html has failed.
C26_Witness ==
    /\ ret.op = "Readdir"
    /\ ret.n = 1
    /\ ret.f \in 1..Len(efiles)
    /\ efiles[ret.f].kind = "env"
    /\ efiles[ret.f].name = <<"i", "n", "d", "e", "x", ".", "h", "t", "m", "l">>
    /\ efiles[ret.f].closeCalls = 0
    /\ handles[efiles[ret.f].file].open
    /\ ret.err = "not a directory"


----------------------------------------------------------------------------
(* Detection and substitution on one content: the loop of the scan over the *)
(* matches of a file and the rewriting of Open, both on the same bytes      *)

\* The scan's loop over one file's data and replaceEnvVars on the same data.
DetectAndReplace ==
    /\ pc = "call"
    /\ missing' = DetectMissing(env, content)
    /\ output' = replaceEnvVars(env, content)
    /\ lookups' = LookedUp(content)
    /\ pc' = "done"
    /\ UNCHANGED <<env, content>>
    /\ UNCHANGED <<root, includeDirs, excludeDirs, todo, walkErr, readFiles, visited, scanResult>>
    /\ UNCHANGED <<fsVars, patVars, matchVars, mainVars>>

NextAgree == DetectAndReplace

SpecAgree == InitReplace /\ [][NextAgree]_vars

\* C27: the names detection collects from a content are the names of the
\* tokens replaceEnvVars leaves verbatim in it; with B unset, ${B:=d} ${B}
\* reports B and is rewritten to d ${B}.
C27_DetectionAgreesWithSubstitution ==
    pc = "done" =>
        /\ missing = {TokName(SubSeq(content, o[1], o[2])) :
                          o \in {t \in Tokens(content) :
                                     ReplacedBy(t, SubSeq(content, t[1], t[2]))}}
        /\ (content = <<"$", "{", "B", ":", "=", "d", "}", " ", "$", "{", "B", "}">> /\ <<"B">> \notin DOMAIN env) =>
               /\ output = <<"d", " ", "$", "{", "B", "}">>
               /\ missing = {<<"B">>}

\* C27 witness: ${B:=d} ${B} with B unset has been scanned and rewritten.
C27_Witness ==
    /\ pc = "done"
    /\ content = <<"$", "{", "B", ":", "=", "d", "}", " ", "$", "{", "B", "}">>
    /\ env = EnvEmpty
    /\ output = <<"d", " ", "$", "{", "B", "}">>
    /\ missing = {<<"B">>}


----------------------------------------------------------------------------
(* Claims about the underlying handles, under SpecFS *)

\* C28: the underlying handle is released on every exit path: a handle is
\* open only while a file Open returned holds it and has not been closed, so
\* once every returned file is closed none is open; after an Open that failed
\* at Stat or at the read the handle it opened is closed, and an Open that
\* failed at the underlying Open holds none.
C28_HandlesReleased ==
    /\ \A h \in 1..Len(handles) :
           handles[h].open =>
               \E f \in 1..Len(efiles) : efiles[f].file = h /\ efiles[f].closeCalls = 0
    /\ (ret.op = "Open" /\ ret.err \in {"failed to stat file", "failed to read file"}) =>
           /\ Len(handles) > Len(efiles)
           /\ ~handles[Len(handles)].open
           /\ handles[Len(handles)].closes = 1
    /\ (\A f \in 1..Len(efiles) : efiles[f].closeCalls >= 1) =>
           \A h \in 1..Len(handles) : ~handles[h].open

\* C28 witness: index.html was opened and closed once, and a second Open of
\* it has failed at the read: both handles are closed.
C28_Witness ==
    /\ ret.op = "Open"
    /\ ret.err = "failed to read file"
    /\ Len(efiles) = 1
    /\ efiles[1].kind = "env"
    /\ efiles[1].closeCalls = 1
    /\ Len(handles) = 2
    /\ ~handles[1].open
    /\ ~handles[2].open
    /\ handles[2].closes = 1


----------------------------------------------------------------------------
(* The whole run: main checks the tree, listens, and the file server opens  *)
(* files of the same tree through EnvFileSystem. A file is named by its     *)
(* path below the root in the scan and in the requests alike.               *)

\* http.ListenAndServe accepts requests: the handlers may call Open.
Accept ==
    /\ pc = "listening"
    /\ pc' = "serve"
    /\ UNCHANGED <<env, disk, handles, efiles, ret>>
    /\ UNCHANGED <<replaceVars, patVars, matchVars, scanVars, mainVars>>

\* The runs over the tree with defaults: nothing excluded or docs/v1 and src
\* excluded, nothing or docs included.
InitRun ==
    /\ Init
    /\ root # <<>>
    /\ disk = TreeDefaults
    /\ includeDirs \in {<<>>, <<"d", "o", "c", "s">>}
    /\ excludeDirs \in {<<>>, <<"d", "o", "c", "s", "/", "v", "1", ",", "s", "r", "c">>}

NextRun ==
    \/ Next
    \/ Accept
    \/ \E name \in DOMAIN disk : Open(name, "none")

SpecRun == InitRun /\ [][NextRun]_vars

\* Token o of s stands in out as it was, the text on either side rewritten.
KeptIn(e, s, out, o) ==
    out = replaceEnvVars(e, Before(s, o)) \o SubSeq(s, o[1], o[2])
              \o replaceEnvVars(e, After(s, o))

\* The tokens of s without ":=" whose variable is not in the environment.
UnsetBare(e, s) ==
    {o \in Tokens(s) : /\ TokName(SubSeq(s, o[1], o[2])) \notin DOMAIN e
                       /\ ~TokHasSep(SubSeq(s, o[1], o[2]))}

C30_ScanSuccessResolvesAll ==
    (/\ checkCalls = 1 /\ pc \notin {"main", "walk"}
     /\ scanResult = NoError
     /\ root # <<>>
     /\ includeDirs = <<>> /\ excludeDirs = <<>>
     /\ \A q \in DOMAIN disk : disk[q].lstatOk /\ disk[q].readable) =>
        \A f \in 1..Len(efiles) :
            efiles[f].kind = "env" =>
                \A o \in Tokens(disk[efiles[f].name].data) :
                    /\ ~KeptIn(env, disk[efiles[f].name].data, efiles[f].data, o)
                    /\ \/ TokName(SubSeq(disk[efiles[f].name].data, o[1], o[2])) \in DOMAIN env
                       \/ TokHasSep(SubSeq(disk[efiles[f].name].data, o[1], o[2]))

\* C30 witness: A is set to the empty string and C to v, nothing is included
\* or excluded, the scan returned nil, and index.html, which holds ${A:=d} ${A},
\* is served as a single blank.
C30_Witness ==
    /\ pc = "serve"
    /\ scanResult = NoError
    /\ includeDirs = <<>> /\ excludeDirs = <<>>
    /\ Cardinality(readFiles) = 5
    /\ ret.op = "Open" /\ ret.err = "nil"
    /\ efiles[ret.f].name = <<"i", "n", "d", "e", "x", ".", "h", "t", "m", "l">>
    /\ disk[efiles[ret.f].name].data = <<"$", "{", "A", ":", "=", "d", "}", " ", "$", "{", "A", "}">>
    /\ efiles[ret.f].data = <<" ">>

====
